---- MODULE Spec2Model ----
(***************************************************************************)
(* A model of DalekRL's map engine (src/maps.py, src/interfaces.py,        *)
(* src/tiles.py): the multi-layer occupancy index with add / remove /      *)
(* move, the terrain objects that are asked about every move, and the      *)
(* TypeAMap level generator.                                               *)
(*                                                                         *)
(* Positions are pairs <<x, y>>.  Python's None for a position is NoPos.   *)
(***************************************************************************)
EXTENDS Integers, Sequences, FiniteSets, TLC

\* Map size used by the game: SCREEN_SIZE - (0,4) = Position(80,46).
SizeX == 80
SizeY == 46

NoPos == <<-9, -9>>
NoObj == "None"

(* ---- Position arithmetic (src/interfaces.py) ---- *)

PAdd(a, b) == <<a[1] + b[1], a[2] + b[2]>>
PSub(a, b) == <<a[1] - b[1], a[2] - b[2]>>
Abs(n) == IF n < 0 THEN -n ELSE n
\* the square of Position.distance_to
Dist2(a, b) == (a[1] - b[1]) * (a[1] - b[1]) + (a[2] - b[2]) * (a[2] - b[2])
\* Position.__gt__
Position_gt(a, b) == (a[1] * a[2] > b[1] * b[2]) \/ (a[1] > b[1])
\* Position.__eq__
Position_eq(a, b) == a[1] = b[1] /\ a[2] = b[2]

(***************************************************************************)
(* PART 1 - the occupancy index (class Map) and the terrain objects        *)
(***************************************************************************)

\* Map.__layer_order
LayerOrder == <<"Tile", "Item", "Monster", "Player">>
Layers == {"Tile", "Item", "Monster", "Player"}

\* The objects of the scenario and their classes.  f1..f4 are Floor tiles,
\* w1 is a Wall, tb a Table, dr a Door, wn a Window and fs the Floor that
\* Window.smash makes; dk is a Dalek (it moves), cam a StaticCamera (a
\* Monster that never moves), pl the Player.
ObjClass == [f1 |-> "Floor", f2 |-> "Floor", f3 |-> "Floor", f4 |-> "Floor",
             w1 |-> "Wall", tb |-> "Table", dr |-> "Door", wn |-> "Window",
             fs |-> "Floor",
             dk |-> "Dalek", cam |-> "StaticCamera", pl |-> "Player"]
Objs == DOMAIN ObjClass
TileClasses == {"Floor", "Wall", "Table", "Door", "Window"}
MonsterClasses == {"Dalek", "StaticCamera"}
Tiles == {o \in Objs : ObjClass[o] \in TileClasses}
Doors == {o \in Objs : ObjClass[o] = "Door"}
Tables == {o \in Objs : ObjClass[o] = "Table"}

\* Map.__get_layer_from_obj: the first layer class the object is an instance of
LayerOf(o) ==
    IF ObjClass[o] \in TileClasses THEN "Tile"
    ELSE IF ObjClass[o] = "Item" THEN "Item"
    ELSE IF ObjClass[o] \in MonsterClasses THEN "Monster"
    ELSE "Player"

\* The terrain of the scenario, in the order generate() adds it: the cells
\* next to the east edge of the map, row 44.
\*                                 (77,43) Floor
\*      (75,44) Floor  (76,44) Window  (77,44) Floor+Door  (78,44) Floor+Table
\*      (79,44) Wall
BuildList == << <<"f1", <<77, 44>> >>, <<"dr", <<77, 44>> >>,
                <<"f2", <<78, 44>> >>, <<"tb", <<78, 44>> >>,
                <<"w1", <<79, 44>> >>, <<"f3", <<77, 43>> >>,
                <<"wn", <<76, 44>> >>, <<"f4", <<75, 44>> >> >>

\* Two casts play on this terrain.  "solo": the player alone, moved to every
\* target.  "crowd": a Dalek moving among a StaticCamera (a Monster that
\* never moves) and a standing player.
Scenarios == {"solo", "crowd"}
\* A third cast plays the level after generation: "watch", the player walking
\* through the door while a Dalek stands behind the window and a camera
\* watches from the table cell.
Watch == "watch"
\* The objects the game moves
Movers(sc) == IF sc \in {"solo", Watch} THEN {"pl"} ELSE {"dk"}
\* The objects the game adds and removes after generation
Placeable(sc) == IF sc = "solo" THEN {"pl"} ELSE {"dk", "cam", "pl"}
\* Where the game places them (find_random_clear cells)
AddPos(sc, o) ==
    IF o = "cam" THEN { <<78, 44>> }
    ELSE IF o = "pl" /\ sc \in {"crowd", Watch} THEN { <<77, 43>> }
    ELSE IF o = "dk" /\ sc = Watch THEN { <<75, 44>> }
    ELSE { <<77, 43>>, <<78, 44>> }
\* The positions the game asks Map.move for: the cells of the scenario and
\* cells on each side of every bound of the grid
MoveTargets(sc) ==
    IF sc = "solo"
    THEN { <<77, 43>>, <<77, 44>>, <<78, 44>>, <<79, 44>>,
           <<SizeX, 44>>, <<SizeX + 1, 44>>, <<-1, 44>>,
           <<78, SizeY>>, <<78, SizeY + 1>>, <<78, -1>> }
    ELSE IF sc = Watch
    THEN { <<77, 43>>, <<77, 44>>, <<78, 44>> }
    ELSE { <<77, 43>>, <<78, 44>>, <<79, 44>> }

VARIABLES
    layers,     \* Map.__layers: layer -> (position -> list of objects)
    opos,       \* obj.pos      (NoPos for None)
    olast,      \* obj.last_pos
    omap,       \* obj.map is this Map (TRUE) or None (FALSE)
    door,       \* Door fields: state, count, count_to, _trying_to_open
    owner,      \* Table.owner (NoObj for None)
    built,      \* number of BuildList entries generate() has added
    scn,        \* the cast of the run, one of Scenarios
    last        \* the last call: op, obj, pos, outcome, try_movement calls, r

mapvars == <<layers, opos, olast, omap, door, owner, built, scn, last>>

\* The state of one TypeAMap.generate() call (PART 2)
VARIABLES
    rng,        \* self.map_rng: the position of the random stream
    pc,         \* the point generate() has reached
    loc,        \* the locals of generate() and of the corridor routine it is in
    corridors,  \* generate()'s list of corridor map elements
    rooms,      \* generate()'s list of room map elements
    _map,       \* self._map: the scratch flag grid, _map[x][y]
    glayers,    \* Map.__layers as generate() fills it: layer -> (position -> list of classes)
    tcod,       \* the cost grid: the set of cells flagged walkable
    restarted   \* a rejected attempt has restarted generate() (history)

genvars == <<rng, pc, loc, corridors, rooms, _map, glayers, tcod, restarted>>

\* The traversal oracle of the Map of PART 1 and the flags it reads and sets
VARIABLES
    tcod_map,           \* Map.__tcod_map: the cells flagged walkable, transparent
    _dirty_pos,         \* Map._dirty_pos: positions waiting for recalculate_dirty
    is_visible,         \* obj.is_visible: the object is drawn at all
    visible_to_player,  \* obj.visible_to_player, set by prepare_fov
    ret                 \* what the last call returned, if it was a query

oravars == <<tcod_map, _dirty_pos, is_visible, visible_to_player, ret>>

\* The runs of generate() from one seed, each on a fresh TypeAMap (history)
VARIABLES
    history     \* seed: the seed of the runs; run: 0 none, 1 the first, 2 the
                \* second; tiles, rejected: the terrain layer the first run
                \* committed and whether an attempt of it was rejected

\* The registry of turn-takers (PART 4)
VARIABLES
    turn_takers,    \* TurnTaker.turn_takers: the list of weak references
    alive,          \* object -> "none" not constructed, "live", "dead" collected
    registered,     \* the objects in the order TurnTaker.__init__ registered them (history)
    round           \* the take_all_turns call: on, i the place of its iterator,
                    \* start the live registered objects it began with, called
                    \* the objects whose take_turn it has called

turnvars == <<turn_takers, alive, registered, round>>

\* The calls of a Door's methods (PART 5)
VARIABLES
    doorlog     \* door -> op: the method called last; tried: try_movement was
                \* called since the last take_turn; n: while OPEN the take_turn
                \* calls since it opened, while CLOSING the take_turn calls in a
                \* row since it began closing or was last entered, while CLOSED
                \* the try_movement calls since a take_turn found none before it
                \* (history)

doorvars == <<doorlog>>

\* The monsters that tangle and their Tangles (PART 6)
VARIABLES
    monsters,       \* monster -> pos, is_visible, tangled_with
    tangles,        \* Tangle -> pos, map, __dogpile, tangle_counter
    monster_layer,  \* the Monster layer of their Map: cell -> list of objects
    tanglelog       \* Tangle -> n: tangle_counter when a monster was last
                    \* added; calls: the take_turn calls since (history)

tanglevars == <<monsters, tangles, monster_layer, tanglelog>>

runvars == <<history, turnvars, doorvars, tanglevars>>

EmptyLayer == [p \in {} |-> <<>>]

\* The monsters of PART 6: two Daleks and a CrateLifter, and the Tangle
\* objects the program can construct
Tanglers == {"d1", "d2", "k1"}
Tangles == {"T1", "T2"}
\* the cells they walk, a row of three
Cells == {<<1, 1>>, <<2, 1>>, <<3, 1>>}
\* where generate() has put them: apart, each on a clear cell
StartCell == [d1 |-> <<1, 1>>, d2 |-> <<2, 1>>, k1 |-> <<3, 1>>]
\* a Tangle that is not constructed, or is dropped
NoTangle == [pos |-> NoPos, map |-> FALSE, dogpile |-> <<>>, tangle_counter |-> 0]
\* no monster has met another
Untangled ==
    /\ monsters = [m \in Tanglers |->
                     [pos |-> StartCell[m], is_visible |-> TRUE, tangled_with |-> NoObj]]
    /\ tangles = [T \in Tangles |-> NoTangle]
    /\ monster_layer = [c \in Cells |->
                          IF c = <<1, 1>> THEN <<"d1">>
                          ELSE IF c = <<2, 1>> THEN <<"d2">> ELSE <<"k1">>]
    /\ tanglelog = [T \in Tangles |-> [n |-> 0, calls |-> 0]]

\* no method of the door has been called
NoCalls == [op |-> "none", tried |-> FALSE, n |-> 0]

\* the classes that derive from TurnTaker: Door and Monster
TurnTakers == {o \in DOMAIN ObjClass : ObjClass[o] \in {"Door", "Dalek", "StaticCamera"}}
\* take_all_turns is not running
NoRound == [on |-> FALSE, i |-> 0, start |-> {}, called |-> <<>>]
\* the class attribute turn_takers = [] and nothing constructed
NoTurnTakers ==
    /\ turn_takers = <<>>
    /\ alive = [o \in TurnTakers |-> "none"]
    /\ registered = <<>>
    /\ round = NoRound

\* a variant that leaves the list as it is
SeqKeep(s, o) == s

\* list.remove(o): drop the first occurrence
RECURSIVE SeqRemove(_, _)
SeqRemove(s, o) ==
    IF s = <<>> THEN <<>>
    ELSE IF Head(s) = o THEN Tail(s)
    ELSE <<Head(s)>> \o SeqRemove(Tail(s), o)

InSeq(s, o) == \E i \in 1..Len(s) : s[i] = o

\* dict.setdefault(p, []).append(o)
CellAppend(ly, p, o) ==
    IF p \in DOMAIN ly THEN [ly EXCEPT ![p] = Append(@, o)]
    ELSE [q \in DOMAIN ly \cup {p} |-> IF q = p THEN <<o>> ELSE ly[q]]

\* del dict[p]
CellDelete(ly, p) == [q \in DOMAIN ly \ {p} |-> ly[q]]

\* Map.find_all_at_pos(pos, layers): the cell lists of the layers, in order
RECURSIVE find_all_at_pos(_, _, _)
find_all_at_pos(ls, pos, lorder) ==
    IF lorder = <<>> THEN <<>>
    ELSE (IF pos \in DOMAIN ls[Head(lorder)] THEN ls[Head(lorder)][pos] ELSE <<>>)
         \o find_all_at_pos(ls, pos, Tail(lorder))


(* ---- terrain objects (src/tiles.py, src/interfaces.py) ---- *)

\* Door.CLOSED / Door.OPEN / Door.CLOSING 'timer'
DoorTimer_same(st) == 4
DoorTimer(st) == IF st = "OPEN" THEN 6 ELSE 4

\* A freshly constructed Door (Door.__init__)
NewDoor == [state |-> "CLOSED", count |-> 0, count_to |-> DoorTimer("CLOSED"),
            trying |-> FALSE]

\* walk_cost in tenths: Wall 0.0, Window 0.0, Floor 1.0, Table 1.0, Door 0.3
\* closed and 1.0 open or closing (Tile.__init__ calls, Door.__change)
walk_cost(o, d) ==
    CASE ObjClass[o] = "Wall"  -> 0
      [] ObjClass[o] = "Window" -> 0
      [] ObjClass[o] = "Floor" -> 10
      [] ObjClass[o] = "Table" -> 10
      [] ObjClass[o] = "Door"  -> IF d[o].state = "CLOSED" THEN 3 ELSE 10
      [] OTHER -> 0

\* Tile.__init__ may_block_movement argument (none of these tiles sets it)
may_block_movement(o) == FALSE

\* isinstance(o, Traversable): every Tile is
IsTraversable(o) == ObjClass[o] \in TileClasses

\* Traversable.blocks_movement
blocks_movement(o, d, is_for_mapping) ==
    (walk_cost(o, d) = 0) /\ (~is_for_mapping \/ may_block_movement(o))

\* Traversable.try_leaving, overridden by Table.try_leaving
try_leaving(t, obj, own) ==
    IF ObjClass[t] = "Table" THEN own[t] # obj ELSE TRUE

\* a count that goes up by two
CountUpInc_two(c) == IF c.count = c.count_to THEN c.count ELSE c.count + 2
\* CountUp.inc on a door record: the new count
CountUpInc(c) == IF c.count = c.count_to THEN c.count ELSE c.count + 1

\* Door.__change(state_dat)
DoorChange(c, st) ==
    [c EXCEPT !.state = st, !.count_to = DoorTimer(st), !.count = 0]

\* a door that opens again when it is entered while closing
try_movement_reopens(t, obj, d) ==
    IF ObjClass[t] # "Door" THEN <<~blocks_movement(t, d, FALSE), d>>
    ELSE IF d[t].state = "OPEN" THEN <<TRUE, d>>
    ELSE IF d[t].state = "CLOSING" THEN <<TRUE, [d EXCEPT ![t] = DoorChange(d[t], "OPEN")]>>
    ELSE LET c1 == [d[t] EXCEPT !.trying = TRUE, !.count = CountUpInc(d[t])]
         IN  IF c1.count = c1.count_to
             THEN <<TRUE, [d EXCEPT ![t] = DoorChange(c1, "OPEN")]>>
             ELSE <<FALSE, [d EXCEPT ![t] = c1]>>

\* Traversable.try_movement / Door.try_movement: <<returned value, door fields>>
try_movement(t, obj, d) ==
    IF ObjClass[t] # "Door" THEN <<~blocks_movement(t, d, FALSE), d>>
    ELSE IF d[t].state = "OPEN" THEN <<TRUE, d>>
    ELSE IF d[t].state = "CLOSING" THEN <<TRUE, [d EXCEPT ![t].count = 0]>>
    ELSE LET c1 == [d[t] EXCEPT !.trying = TRUE, !.count = CountUpInc(d[t])]
         IN  IF c1.count = c1.count_to
             THEN <<TRUE, [d EXCEPT ![t] = DoorChange(c1, "OPEN")]>>
             ELSE <<FALSE, [d EXCEPT ![t] = c1]>>

\* a variant that asks only the first terrain object of the source cell
SourcesAllowFirstOnly(srcs, obj, own) ==
    IF srcs = <<>> THEN TRUE
    ELSE ~(IsTraversable(Head(srcs)) /\ ~try_leaving(Head(srcs), obj, own))

\* Map.move lines 85-89: does every Traversable at the source let obj leave?
RECURSIVE SourcesAllow(_, _, _)
SourcesAllow(srcs, obj, own) ==
    IF srcs = <<>> THEN TRUE
    ELSE IF IsTraversable(Head(srcs)) /\ ~try_leaving(Head(srcs), obj, own) THEN FALSE
    ELSE SourcesAllow(Tail(srcs), obj, own)

\* Map.move lines 92-95: r += dest.try_movement(obj) over the destination's
\* tiles; the result carries r, the door fields, the number of calls made
\* and whether every call returned True
RECURSIVE AskDests(_, _, _)
AskDests(dests, obj, acc) ==
    IF dests = <<>> THEN acc
    ELSE IF ~IsTraversable(Head(dests)) THEN AskDests(Tail(dests), obj, acc)
    ELSE LET res == try_movement(Head(dests), obj, acc.d)
         IN  AskDests(Tail(dests), obj,
                      [r     |-> acc.r + (IF res[1] THEN 1 ELSE 0),
                       d     |-> res[2],
                       calls |-> acc.calls + 1,
                       allok |-> acc.allok /\ res[1]])

\* Map.move line 81: the bounds check
MoveOutOfBounds(pos) == pos[1] > SizeX \/ pos[1] < 0 \/ pos[2] > SizeY \/ pos[2] < 0

\* Map.move line 111: the value returned, r being a count of True answers
MoveReturn(r) == IF r > 0 /\ r <= 1 /\ (1 - r) # 0 THEN 1 - r ELSE r

Call(op, o, p, outcome, calls, r) ==
    [op |-> op, obj |-> o, pos |-> p, outcome |-> outcome, calls |-> calls, r |-> r]

(* ---- the traversal oracle: cost grid, field of view, paths ---- *)

\* transparency in tenths: Wall 0.0, Door 0.0 closed and 1.0 open or closing,
\* Floor, Table and Window 1.0 (Tile.__init__ calls, Door.__change)
transparency(o, d) ==
    CASE ObjClass[o] = "Wall" -> 0
      [] ObjClass[o] = "Door" -> IF d[o].state = "CLOSED" THEN 0 ELSE 10
      [] OTHER -> 10

\* Transparent.blocks_light
blocks_light(o, d) == transparency(o, d) = 0

\* libtcod.map_new / map_clear: no cell is walkable and none is transparent
NewGrid == [walkable |-> {}, transparent |-> {}]

\* lines 234-236 and 246-248 for one terrain object o at cell c
map_set_properties(g, c, o, d) ==
    [walkable    |-> IF IsTraversable(o) /\ ~blocks_movement(o, d, FALSE)
                     THEN g.walkable \cup {c} ELSE g.walkable \ {c},
     transparent |-> IF ~blocks_light(o, d)
                     THEN g.transparent \cup {c} ELSE g.transparent \ {c}]

RECURSIVE SetFromCell(_, _, _, _)
\* the inner loop "for o in ol": every object of the cell sets the cell's
\* flags, the last one decides
SetFromCell(g, c, objs, d) ==
    IF objs = <<>> THEN g
    ELSE SetFromCell(map_set_properties(g, c, Head(objs), d), c, Tail(objs), d)

\* Map.recalculate_paths() with pos None: lines 231-236
recalculate_all(ls, d) ==
    LET cell(c) == SetFromCell(NewGrid, c, ls["Tile"][c], d)
    IN  [walkable    |-> {c \in DOMAIN ls["Tile"] : c \in cell(c).walkable},
         transparent |-> {c \in DOMAIN ls["Tile"] : c \in cell(c).transparent}]

RECURSIVE recalculate_at(_, _, _, _)
\* Map.recalculate_paths(pos, force_now=True): lines 243-248; a position
\* that holds no terrain keeps the flags it has
recalculate_at(g, ls, d, ps) ==
    IF ps = <<>> THEN g
    ELSE LET p    == Head(ps)
             objs == IF p \in DOMAIN ls["Tile"] THEN ls["Tile"][p] ELSE <<>>
         IN  recalculate_at(SetFromCell(g, p, objs, d), ls, d, Tail(ps))

\* the cells a straight line from p to q passes between the two
LineBetween(p, q) ==
    LET dx == q[1] - p[1]
        dy == q[2] - p[2]
        xs == IF dx < 0 THEN q[1]..p[1] ELSE p[1]..q[1]
        ys == IF dy < 0 THEN q[2]..p[2] ELSE p[2]..q[2]
        m  == IF Abs(dx) > Abs(dy) THEN Abs(dx) ELSE Abs(dy)
    IN  {c \in xs \X ys :
            c # p /\ c # q /\ 2 * Abs(dx * (c[2] - p[2]) - dy * (c[1] - p[1])) <= m}

\* libtcod.map_is_in_fov after map_compute_fov(pos, 0, True, FOV_BASIC): the
\* sight line is stopped by the first cell that is not transparent, which
\* is itself in view (light_walls)
InFov(g, from, c) == \A b \in LineBetween(from, c) : b \in g.transparent

\* the cells whose list holds o
CellsOf(ls, o) == {c \in DOMAIN ls[LayerOf(o)] : InSeq(ls[LayerOf(o)][c], o)}

\* the flags if every call cleared the flag of each object out of view
prepare_fov_reset(g, ls, pos, vtp, reset) ==
    [o \in Objs |-> IF CellsOf(ls, o) = {} THEN vtp[o]
                    ELSE \E c \in CellsOf(ls, o) : InFov(g, pos, c)]

\* Map.prepare_fov(pos, radius=0, reset): the visible_to_player flags
\* afterwards; an object listed in no cell is not met by the loops
prepare_fov(g, ls, pos, vtp, reset) ==
    [o \in Objs |-> IF CellsOf(ls, o) = {} THEN vtp[o]
                    ELSE IF \E c \in CellsOf(ls, o) : InFov(g, pos, c) THEN TRUE
                    ELSE IF reset THEN FALSE
                    ELSE vtp[o]]

\* player.reset_fov(): the player's field of view is computed again from
\* where the player is.  From a position outside the grid libtcod is not
\* defined: the flags come out as computed or all cleared.
reset_fov(g, ls, ppos, vtp) ==
    IF ppos = NoPos THEN {vtp}
    ELSE IF ppos[1] >= 0 /\ ppos[1] < SizeX /\ ppos[2] >= 0 /\ ppos[2] < SizeY
    THEN {prepare_fov(g, ls, ppos, vtp, TRUE)}
    ELSE {prepare_fov(g, ls, ppos, vtp, TRUE),
          [o \in Objs |-> IF CellsOf(ls, o) = {} THEN vtp[o] ELSE FALSE]}

\* a door has gone from CLOSED to OPEN or from CLOSING to CLOSED
DoorSwitched(d0, d1) ==
    \E t \in Doors : (d0[t].state = "CLOSED") # (d1[t].state = "CLOSED")

\* Door.to_open and Door.to_closed, lines 417-418 and 422-423 of
\* src/tiles.py: the whole grid is recalculated and the field of view reset
AfterDoors(d1) ==
    IF DoorSwitched(door, d1)
    THEN /\ tcod_map' = recalculate_all(layers, d1)
         /\ visible_to_player' \in
                reset_fov(recalculate_all(layers, d1), layers, opos["pl"], visible_to_player)
    ELSE UNCHANGED <<tcod_map, visible_to_player>>

\* the cost of a step between neighbours, in tenths: 1.0, diagonal 1.4
StepCost(a, b) == IF a[1] = b[1] \/ a[2] = b[2] THEN 10 ELSE 14
Adjacent(a, b) == a # b /\ Abs(a[1] - b[1]) <= 1 /\ Abs(a[2] - b[2]) <= 1

RECURSIVE Walks(_, _, _, _)
\* the walks over walkable cells from cell at to cell to that enter no cell
\* of seen: the cells after at, to last
Walks(g, at, to, seen) ==
    IF at = to THEN {<<>>}
    ELSE UNION {{<<b>> \o w : w \in Walks(g, b, to, seen \cup {b})} :
                  b \in {a \in g.walkable \ seen : Adjacent(at, a)}}

RECURSIVE WalkCost(_, _)
\* the cost of walk w begun at cell at
WalkCost(at, w) ==
    IF w = <<>> THEN 0 ELSE StepCost(at, Head(w)) + WalkCost(Head(w), Tail(w))

\* dijkstra_compute and dijkstra_path_set: the paths dijkstra_size and
\* dijkstra_get can read off, the cheapest walks; the empty one when to_pos
\* is not reached or is the root itself
FullPaths(g, from_pos, to_pos) ==
    LET ws == Walks(g, from_pos, to_pos, {from_pos})
    IN  IF from_pos = to_pos \/ ws = {} THEN {<<>>}
        ELSE {w \in ws : \A v \in ws : WalkCost(from_pos, w) <= WalkCost(from_pos, v)}

\* steps=None
NoSteps == -1

\* what dijkstra_get hands back for an index past the end of the path: the
\* coordinates are not set by libtcod
UnsetCells == {<<0, 0>>, <<-1, -1>>}

\* Map.get_path lines 365-373: steps entries are read whatever the path holds
PathRead(full, steps, unset) ==
    [i \in 1..(IF steps = NoSteps THEN Len(full) ELSE steps) |->
        IF i <= Len(full) THEN full[i] ELSE unset]

\* no query has returned
NoRet == [op |-> "none", args |-> <<>>, val |-> <<>>]

(* ---- Map.add / Map.remove / Map.move ---- *)

\* Map.add(obj): lines 51-57
MapAdd(ls, o, p) == [ls EXCEPT ![LayerOf(o)] = CellAppend(@, p, o)]

\* a variant that drops the whole cell
MapRemoveCell(ls, o, p) ==
    [ls EXCEPT ![LayerOf(o)] = CellDelete(@, p)]

\* Map.remove(obj) lines 67-69, for an object that is in its cell list
MapRemove(ls, o, p) ==
    LET ly  == ls[LayerOf(o)]
        lst == SeqRemove(ly[p], o)
    IN  [ls EXCEPT ![LayerOf(o)] =
            IF Len(lst) = 0 THEN CellDelete(ly, p) ELSE [ly EXCEPT ![p] = lst]]

\* a variant that puts the object first in the destination list
MapRelocateFront(ls, o, from, to) ==
    LET ly  == [ls[LayerOf(o)] EXCEPT ![from] = SeqRemove(@, o)]
        old == IF to \in DOMAIN ly THEN ly[to] ELSE <<>>
    IN  [ls EXCEPT ![LayerOf(o)] =
            [q \in DOMAIN ly \cup {to} |-> IF q = to THEN <<o>> \o old ELSE ly[q]]]

\* Map.move lines 103-104: move the object reference
MapRelocate(ls, o, from, to) ==
    LET ly == ls[LayerOf(o)]
    IN  [ls EXCEPT ![LayerOf(o)] = CellAppend([ly EXCEPT ![from] = SeqRemove(@, o)], to, o)]

MapInit ==
    /\ layers = [l \in Layers |-> EmptyLayer]
    /\ opos = [o \in Objs |-> NoPos]
    /\ olast = [o \in Objs |-> NoPos]
    /\ omap = [o \in Objs |-> FALSE]
    /\ door = [o \in Doors |-> NewDoor]
    /\ owner = [o \in Tables |-> NoObj]
    /\ built = 0
    /\ scn \in Scenarios \cup {Watch}
    /\ last = Call("init", NoObj, NoPos, "ok", 0, 0)
    /\ tcod_map = NewGrid
    /\ _dirty_pos = <<>>
    /\ is_visible = [o \in Objs |-> TRUE]
    /\ visible_to_player = [o \in Objs |-> FALSE]
    /\ ret = NoRet
    /\ NoTurnTakers
    /\ doorlog = [t \in Doors |-> NoCalls]
    /\ Untangled

\* generate(): self.add(Tile(pos)) for the next tile of the level; after the
\* last one _gen_finish recalculates the whole cost grid (line 471)
GenAdd ==
    /\ built < Len(BuildList)
    /\ LET o == BuildList[built + 1][1]
           p == BuildList[built + 1][2]
       IN  /\ opos' = [opos EXCEPT ![o] = p]
           /\ olast' = [olast EXCEPT ![o] = p]
           /\ omap' = [omap EXCEPT ![o] = TRUE]
           /\ layers' = MapAdd(layers, o, p)
           /\ last' = Call("add", o, p, "ok", 0, 0)
    /\ built' = built + 1
    /\ IF built + 1 = Len(BuildList)
       THEN tcod_map' = recalculate_all(layers', door)
       ELSE UNCHANGED tcod_map
    /\ ret' = NoRet
    /\ UNCHANGED <<door, owner, scn, _dirty_pos, is_visible, visible_to_player>>
    /\ UNCHANGED <<genvars, runvars>>

\* A fresh monster is constructed at p (Mappable.__init__ sets pos and
\* last_pos) and added; the player has its pos assigned and is added
\* (_gen_add_key_elements lines 446-447)
Add(o, p) ==
    /\ built = Len(BuildList)
    /\ ~omap[o]
    /\ opos' = [opos EXCEPT ![o] = p]
    /\ olast' = IF o = "pl" THEN olast ELSE [olast EXCEPT ![o] = p]
    /\ omap' = [omap EXCEPT ![o] = TRUE]
    /\ layers' = MapAdd(layers, o, p)
    /\ last' = Call("add", o, p, "ok", 0, 0)
    /\ is_visible' = IF o = "pl" THEN is_visible ELSE [is_visible EXCEPT ![o] = TRUE]
    /\ visible_to_player' = IF o = "pl" THEN visible_to_player
                             ELSE [visible_to_player EXCEPT ![o] = FALSE]
    /\ ret' = NoRet
    /\ UNCHANGED <<door, owner, built, scn, tcod_map, _dirty_pos>>
    /\ UNCHANGED <<genvars, runvars>>

\* Map.remove(obj)
Remove(o) ==
    /\ built = Len(BuildList)
    /\ IF opos[o] \notin DOMAIN layers[LayerOf(o)]
       THEN /\ last' = Call("remove", o, opos[o], "AssertionError", 0, 0)
            /\ UNCHANGED <<layers, opos, olast, omap>>
       ELSE IF ~InSeq(layers[LayerOf(o)][opos[o]], o)
       THEN /\ last' = Call("remove", o, opos[o], "ValueError", 0, 0)
            /\ UNCHANGED <<layers, opos, olast, omap>>
       ELSE /\ layers' = MapRemove(layers, o, opos[o])
            /\ omap' = [omap EXCEPT ![o] = FALSE]
            /\ opos' = [opos EXCEPT ![o] = NoPos]
            /\ last' = Call("remove", o, opos[o], "ok", 0, 0)
            /\ UNCHANGED olast
    /\ ret' = NoRet
    /\ UNCHANGED <<door, owner, built, scn>>
    /\ UNCHANGED <<tcod_map, _dirty_pos, is_visible, visible_to_player>>
    /\ UNCHANGED <<genvars, runvars>>

\* Map.move(obj, pos)
Move(o, p) ==
    /\ built = Len(BuildList)
    /\ LET srcs  == find_all_at_pos(layers, opos[o], <<"Tile">>)
           dests == find_all_at_pos(layers, p, <<"Tile">>)
           asked == AskDests(dests, o, [r |-> 0, d |-> door, calls |-> 0, allok |-> TRUE])
       IN  IF ~omap[o]
           THEN /\ last' = Call("move", o, p, "AssertionError", 0, 0)
                /\ UNCHANGED <<layers, opos, olast, door, tcod_map, visible_to_player>>
           ELSE IF MoveOutOfBounds(p)
           THEN /\ last' = Call("move", o, p, "InvalidMoveError", 0, 0)
                /\ UNCHANGED <<layers, opos, olast, door, tcod_map, visible_to_player>>
           ELSE IF ~SourcesAllow(srcs, o, owner)
           THEN /\ last' = Call("move", o, p, "InvalidMoveError", 0, 0)
                /\ UNCHANGED <<layers, opos, olast, door, tcod_map, visible_to_player>>
           ELSE IF opos[o] \notin DOMAIN layers[LayerOf(o)]
           THEN /\ door' = asked.d
                /\ AfterDoors(asked.d)
                /\ last' = Call("move", o, p, "AssertionError", asked.calls, asked.r)
                /\ UNCHANGED <<layers, opos, olast>>
           ELSE /\ door' = asked.d
                /\ AfterDoors(asked.d)
                /\ layers' = MapRelocate(layers, o, opos[o], p)
                /\ olast' = [olast EXCEPT ![o] = opos[o]]
                /\ opos' = [opos EXCEPT ![o] = p]
                /\ last' = Call("move", o, p, "ok", asked.calls, MoveReturn(asked.r))
    /\ ret' = NoRet
    /\ UNCHANGED <<omap, owner, built, scn, _dirty_pos, is_visible>>
    /\ UNCHANGED <<genvars, runvars>>

\* Table.activate(activator), the activator standing on the table's cell
Activate(t, o) ==
    /\ built = Len(BuildList)
    /\ omap[o] /\ omap[t] /\ opos[o] = opos[t]
    /\ IF owner[t] # NoObj /\ owner[t] # o
       THEN /\ last' = Call("activate", o, opos[t], "InvalidMoveError", 0, 0)
            /\ UNCHANGED <<owner, is_visible>>
       ELSE /\ owner' = [owner EXCEPT ![t] = IF owner[t] = NoObj THEN o ELSE NoObj]
            /\ is_visible' = [is_visible EXCEPT ![o] = (owner[t] # NoObj)]
            /\ last' = Call("activate", o, opos[t], "ok", 0, 0)
    /\ ret' = NoRet
    /\ UNCHANGED <<layers, opos, olast, omap, door, built, scn>>
    /\ UNCHANGED <<tcod_map, _dirty_pos, visible_to_player>>
    /\ UNCHANGED <<genvars, runvars>>

(* ---- the level in play: doors, windows, the cost grid and the queries ---- *)

\* Door.take_turn
DoorTurn(t) ==
    /\ built = Len(BuildList)
    /\ omap[t]
    /\ LET c   == door[t]
           inc == [c EXCEPT !.count = CountUpInc(c)]
           c1  == IF c.state = "CLOSED"
                  THEN (IF c.trying THEN [c EXCEPT !.trying = FALSE]
                        ELSE [c EXCEPT !.count = 0])
                  ELSE IF inc.count = inc.count_to
                  THEN DoorChange(inc, IF c.state = "OPEN" THEN "CLOSING" ELSE "CLOSED")
                  ELSE inc
           d1  == [door EXCEPT ![t] = c1]
       IN  /\ door' = d1
           /\ AfterDoors(d1)
    /\ last' = Call("take_turn", t, opos[t], "ok", 0, 0)
    /\ ret' = NoRet
    /\ UNCHANGED <<layers, opos, olast, omap, owner, built, scn, _dirty_pos, is_visible>>
    /\ UNCHANGED <<genvars, runvars>>

\* Window.smash: shout (a query, nothing changes), add(Floor(self.pos)),
\* remove(self)
Smash(w) ==
    /\ built = Len(BuildList)
    /\ omap[w] /\ ~omap["fs"]
    /\ layers' = MapRemove(MapAdd(layers, "fs", opos[w]), w, opos[w])
    /\ opos' = [opos EXCEPT !["fs"] = opos[w], ![w] = NoPos]
    /\ olast' = [olast EXCEPT !["fs"] = opos[w]]
    /\ omap' = [omap EXCEPT !["fs"] = TRUE, ![w] = FALSE]
    /\ last' = Call("smash", w, opos[w], "ok", 0, 0)
    /\ ret' = NoRet
    /\ UNCHANGED <<door, owner, built, scn>>
    /\ UNCHANGED <<tcod_map, _dirty_pos, is_visible, visible_to_player>>
    /\ UNCHANGED <<genvars, runvars>>

\* how many positions the callers leave waiting at most
MaxDirty == 1

\* Map.recalculate_paths(pos) without force_now: lines 240-242
MarkDirty(p) ==
    /\ built = Len(BuildList)
    /\ Len(_dirty_pos) < MaxDirty
    /\ _dirty_pos' = Append(_dirty_pos, p)
    /\ last' = Call("recalculate_paths", NoObj, p, "ok", 0, 0)
    /\ ret' = NoRet
    /\ UNCHANGED <<layers, opos, olast, omap, door, owner, built, scn>>
    /\ UNCHANGED <<tcod_map, is_visible, visible_to_player>>
    /\ UNCHANGED <<genvars, runvars>>

\* Map.recalculate_dirty
RecalculateDirty ==
    /\ built = Len(BuildList)
    /\ IF Len(_dirty_pos) > 0
       THEN /\ tcod_map' = recalculate_at(tcod_map, layers, door, _dirty_pos)
            /\ _dirty_pos' = <<>>
       ELSE UNCHANGED <<tcod_map, _dirty_pos>>
    /\ last' = Call("recalculate_dirty", NoObj, NoPos, "ok", 0, 0)
    /\ ret' = NoRet
    /\ UNCHANGED <<layers, opos, olast, omap, door, owner, built, scn>>
    /\ UNCHANGED <<is_visible, visible_to_player>>
    /\ UNCHANGED <<genvars, runvars>>

\* the game loop's player.map.prepare_fov(player.pos), src/DalekRL.py line
\* 104, and the same call with reset=False
PrepareFov(reset) ==
    /\ built = Len(BuildList)
    /\ omap["pl"]
    /\ visible_to_player' =
           prepare_fov(tcod_map, layers, opos["pl"], visible_to_player, reset)
    /\ last' = Call("prepare_fov", "pl", opos["pl"], "ok", 0, 0)
    /\ ret' = [op |-> "prepare_fov", args |-> <<opos["pl"], reset>>, val |-> <<>>]
    /\ UNCHANGED <<layers, opos, olast, omap, door, owner, built, scn>>
    /\ UNCHANGED <<tcod_map, _dirty_pos, is_visible>>
    /\ UNCHANGED <<genvars, runvars>>

\* the steps arguments of the callers: none, and up to MaxSteps
MaxSteps == 3
StepsAsked == {NoSteps, 1, MaxSteps}

\* Map.get_path(o.pos, player.pos, steps), asked by monster o
GetPath(o, steps) ==
    /\ built = Len(BuildList)
    /\ omap[o] /\ omap["pl"]
    /\ \E full \in FullPaths(tcod_map, opos[o], opos["pl"]) : \E unset \in UnsetCells :
           ret' = [op   |-> "get_path",
                   args |-> <<opos[o], opos["pl"], steps>>,
                   val  |-> PathRead(full, steps, unset)]
    /\ last' = Call("get_path", o, opos["pl"], "ok", 0, 0)
    /\ UNCHANGED <<layers, opos, olast, omap, door, owner, built, scn>>
    /\ UNCHANGED <<tcod_map, _dirty_pos, is_visible, visible_to_player>>
    /\ UNCHANGED <<genvars, runvars>>

\* the objects find_all(otype) lists for find_nearest and find_all_within_r,
\* after the test of lines 136 and 149
Candidates(o, classes) ==
    {x \in Objs : /\ ObjClass[x] \in classes
                  /\ CellsOf(layers, x) # {}
                  /\ x # o
                  /\ is_visible[x]}

\* Map.find_nearest(o, Monster): of several nearest ones the first that
\* find_all lists, which is any of them
FindNearest(o) ==
    /\ built = Len(BuildList)
    /\ omap[o]
    /\ LET cs   == Candidates(o, MonsterClasses)
           near == {x \in cs : \A y \in cs : Dist2(opos[o], opos[x]) <= Dist2(opos[o], opos[y])}
       IN  \E r \in (IF cs = {} THEN {NoObj} ELSE near) :
               ret' = [op |-> "find_nearest", args |-> <<o>>, val |-> r]
    /\ last' = Call("find_nearest", o, opos[o], "ok", 0, 0)
    /\ UNCHANGED <<layers, opos, olast, omap, door, owner, built, scn>>
    /\ UNCHANGED <<tcod_map, _dirty_pos, is_visible, visible_to_player>>
    /\ UNCHANGED <<genvars, runvars>>

\* the classes that are Alertable
AlertableClasses == {"Dalek"}

\* the audible_radius asked with: the StaticCamera's 50, and a short one that
\* leaves the Dalek out
Radii == {2, 50}

\* Map.find_all_within_r(o, Alertable, radius), as Shouter.shout asks
FindAllWithinR(o, radius) ==
    /\ built = Len(BuildList)
    /\ omap[o]
    /\ ret' = [op   |-> "find_all_within_r",
               args |-> <<o, radius>>,
               val  |-> {x \in Candidates(o, AlertableClasses) :
                            Dist2(opos[o], opos[x]) < radius * radius}]
    /\ last' = Call("find_all_within_r", o, opos[o], "ok", 0, 0)
    /\ UNCHANGED <<layers, opos, olast, omap, door, owner, built, scn>>
    /\ UNCHANGED <<tcod_map, _dirty_pos, is_visible, visible_to_player>>
    /\ UNCHANGED <<genvars, runvars>>

MapNext ==
    \/ GenAdd
    \/ \E o \in Placeable(scn) : \E p \in AddPos(scn, o) : Add(o, p)
    \/ \E o \in Placeable(scn) : Remove(o)
    \/ \E o \in Movers(scn) : \E p \in MoveTargets(scn) : Move(o, p)
    \/ \E t \in Tables : \E o \in Movers(scn) : Activate(t, o)

(***************************************************************************)
(* PART 2 - the level generator (TypeAMap.generate)                        *)
(*                                                                         *)
(* libtcod's random generator is outside the repository: the stream that   *)
(* follows a seed is taken to be that of a 16-bit linear congruential      *)
(* generator, the stream position being its last raw value.  The Light    *)
(* and FlatLight classes and MapPattern.LIGHT are missing from             *)
(* src/tiles.py: LIGHT is taken as the next free flag bit, and light       *)
(* objects are kept out of the terrain layer.                              *)
(***************************************************************************)

(* ---- the random stream ---- *)

Lcg == [a |-> 25173, c |-> 13849, m |-> 65536]

\* the stream position after one more draw; the draw's raw value
LcgNext(x) == (x * Lcg.a + Lcg.c) % Lcg.m

\* a * b modulo Lcg.m, without leaving 32 bits
MulMod(a, b) == (((a % 256) * b) + ((((a \div 256) * b) % 256) * 256)) % Lcg.m

\* the multiplier and increment of 2^k draws taken at once
LcgPow[k \in 0..16] ==
    IF k = 0 THEN <<Lcg.a, Lcg.c>>
    ELSE LET p == LcgPow[k - 1]
         IN  <<MulMod(p[1], p[1]), MulMod(p[2], (p[1] + 1) % Lcg.m)>>

RECURSIVE LcgSkip(_, _, _)
LcgSkip(x, n, k) ==
    IF n = 0 THEN x
    ELSE LcgSkip(IF n % 2 = 1 THEN (MulMod(LcgPow[k][1], x) + LcgPow[k][2]) % Lcg.m ELSE x,
                 n \div 2, k + 1)

\* the stream position after n draws from position x (the n-th raw value)
Draw(x, n) == LcgSkip(x, n, 0)

\* libtcod.random_get_int(rng, lo, hi) for the raw value drawn
random_get_int(raw, lo, hi) ==
    LET l == IF hi < lo THEN hi ELSE lo
        h == IF hi < lo THEN lo ELSE hi
    IN  l + ((raw \div 16) % (h - l + 1))

(* ---- MapPattern flags (src/tiles.py) and TypeAMap constants ---- *)

CORRIDOR == 1
ROOM == 2
WALL == 4
DOOR == 8
SPECIAL == 16
LIGHT == 32

HasFlag(t, f) == (t \div f) % 2 = 1
\* t left as it is
SetFlag_not(t, f) == t
SetFlag(t, f) == IF HasFlag(t, f) THEN t ELSE t + f

CORRIDOR_MAX_BENDS == 4
\* CORRIDOR_LENGTH_VAR = [0.8, 1.3], in tenths
CORRIDOR_LENGTH_VAR == <<8, 13>>
CORRIDOR_MINOR_LEN == 60
CORRIDOR_MINOR_BEND == 1
CORRIDOR_MINOR_FREQ == 6
CORRIDOR_MINOR_STEP == 4
CORRIDOR_MIN_LENGTH == 5
MIN_ROOMS == 6
MAX_ROOMS == 14
ROOM_MIN_WIDTH == 4
ROOM_MAX_AREA == 80 * 14
\* REJECT_COVERAGE_PC = 0.6 and REJECT_COVERAGE_SQ = 0.8, in percent
REJECT_COVERAGE_PC == 60
REJECT_COVERAGE_SQ == 80
SANITY_LIMIT == 100
BOUNDARY_UNSET == -1
LIGHT_MIN_RADIUS == 8
LIGHT_MAX_RADIUS == 25

COMPASS ==
    [N |-> [opposite |-> "S", clockwise |-> "E", anticlockwise |-> "W", adjacent |-> <<"W", "E">>],
     S |-> [opposite |-> "N", clockwise |-> "W", anticlockwise |-> "E", adjacent |-> <<"W", "E">>],
     E |-> [opposite |-> "W", clockwise |-> "S", anticlockwise |-> "N", adjacent |-> <<"N", "S">>],
     W |-> [opposite |-> "E", clockwise |-> "N", anticlockwise |-> "S", adjacent |-> <<"N", "S">>]]

(* ---- map elements (TypeAMap._ME) and the scratch grid ---- *)

_ME(tile_id, pos, size, origin, direction, length) ==
    [tile_id |-> tile_id, pos |-> pos, size |-> size, opos |-> origin,
     direction |-> direction, length |-> length, flat_light |-> FALSE]

\* a Python list index: negative indices count from the end
PyIdx(i, n) == IF i < 0 THEN i + n ELSE i

\* _ME.commit's assertion
CommitFits(e) == e.pos[1] + e.size[1] <= SizeX /\ e.pos[2] + e.size[2] <= SizeY
\* _ME.commit's loops index the grid only with indices Python accepts
CommitIndexOk(e) ==
    (e.size[1] > 0 /\ e.size[2] > 0) => (e.pos[1] >= -SizeX /\ e.pos[2] >= -SizeY)

\* index i of an axis of length n is written by the loop over range(s) from p
CoversAxis(p, s, n, i) == (p <= i /\ i < p + s) \/ (p <= i - n /\ i - n < p + s)

OrFlags(t, ids) ==
    t + (IF CORRIDOR \in ids /\ ~HasFlag(t, CORRIDOR) THEN CORRIDOR ELSE 0)
      + (IF ROOM \in ids /\ ~HasFlag(t, ROOM) THEN ROOM ELSE 0)
      + (IF WALL \in ids /\ ~HasFlag(t, WALL) THEN WALL ELSE 0)
      + (IF DOOR \in ids /\ ~HasFlag(t, DOOR) THEN DOOR ELSE 0)
      + (IF LIGHT \in ids /\ ~HasFlag(t, LIGHT) THEN LIGHT ELSE 0)

\* e.commit(m) for every e of the list es, none of them failing
CommitAll(m, es) ==
    [x \in 0..(SizeX - 1) |->
        LET ix == {i \in 1..Len(es) : CoversAxis(es[i].pos[1], es[i].size[1], SizeX, x)}
        IN  IF ix = {} THEN m[x]
            ELSE [y \in 0..(SizeY - 1) |->
                    OrFlags(m[x][y],
                            {es[i].tile_id : i \in {j \in ix :
                                CoversAxis(es[j].pos[2], es[j].size[2], SizeY, y)}})]]

\* the first element of es whose commit fails, 0 if none does
FirstBadCommit(es) ==
    LET bad == {i \in 1..Len(es) : ~CommitFits(es[i]) \/ ~CommitIndexOk(es[i])}
    IN  IF bad = {} THEN 0 ELSE CHOOSE i \in bad : \A j \in bad : i <= j

CommitError(e) == IF ~CommitFits(e) THEN "AssertionError" ELSE "IndexError"

\* generate() lines 1116-1121
edges ==
    << _ME(WALL, <<0, 0>>, <<SizeX - 1, 1>>, NoPos, "None", 0),
       _ME(WALL, <<0, 0>>, <<1, SizeY - 1>>, NoPos, "None", 0),
       _ME(WALL, <<SizeX - 1, 0>>, <<1, SizeY>>, NoPos, "None", 0),
       _ME(WALL, <<0, SizeY - 1>>, <<SizeX, 1>>, NoPos, "None", 0) >>

\* generate() line 1112
ZeroMap == [x \in 0..(SizeX - 1) |-> [y \in 0..(SizeY - 1) |-> 0]]

(* ---- compass and edge helpers ---- *)

_gen_get_compass_dir(raw) == <<"N", "S", "E", "W">>[random_get_int(raw, 0, 3) + 1]
_gen_get_compass_turn(direction, raw) ==
    COMPASS[direction].adjacent[random_get_int(raw, 0, 1) + 1]
_gen_get_compass_opposite(direction) == COMPASS[direction].opposite
_gen_get_compass_left(direction) == COMPASS[direction].anticlockwise
_gen_get_compass_right(direction) == COMPASS[direction].clockwise

_gen_get_available_dist(pos, direction) ==
    CASE direction = "N" -> pos[2]
      [] direction = "S" -> SizeY - pos[2]
      [] direction = "E" -> SizeX - pos[1]
      [] direction = "W" -> pos[1]

_gen_pos_from_dir(direction, distance) ==
    CASE direction = "N" -> <<0, -distance>>
      [] direction = "S" -> <<0, distance>>
      [] direction = "E" -> <<distance, 0>>
      [] direction = "W" -> <<-distance, 0>>

\* _gen_dir_from_pos(pos_from, pos_to): <<direction, length>>
_gen_dir_from_pos(pos_from, pos_to) ==
    LET v == PSub(pos_to, pos_from)
    IN  IF Abs(v[2]) > Abs(v[1])
        THEN <<IF v[2] < 0 THEN "N" ELSE "S", Abs(v[2])>>
        ELSE <<IF v[1] < 0 THEN "W" ELSE "E", Abs(v[1])>>

\* _gen_get_edge_tile(edge, border_min, border_max) on grid m from stream
\* position x: the tile and the stream position after it
RECURSIVE _gen_get_edge_tile(_, _, _, _, _)
_gen_get_edge_tile(m, x, edge, border_min, border_max) ==
    LET r1 == LcgNext(x)
        r2 == LcgNext(r1)
        p  == CASE edge = "N" -> <<random_get_int(r1, border_min, SizeX - border_min - 1),
                                   random_get_int(r2, border_min, border_max)>>
                [] edge = "S" -> <<random_get_int(r1, border_min, SizeX - border_min - 1),
                                   SizeY - random_get_int(r2, border_min, border_max) - 1>>
                [] edge = "W" -> <<random_get_int(r1, border_min, border_max),
                                   random_get_int(r2, border_min, SizeY - border_min - 1)>>
                [] edge = "E" -> <<SizeX - random_get_int(r1, border_min, border_max),
                                   random_get_int(r2, border_min, SizeY - border_min - 1)>>
    IN  IF m[p[1]][p[2]] = 0 THEN [pos |-> p, rng |-> r2]
        ELSE _gen_get_edge_tile(m, r2, edge, border_min, border_max)

\* _gen_corridor_seg(opos, direction, length, width), light_roll drawn as raw:
\* the list of map elements, the corridor element last
_gen_corridor_seg(opos0, direction, length0, width, raw) ==
    LET shrink == \/ (direction = "N" /\ opos0[2] + width >= SizeY)
                  \/ (direction = "W" /\ opos0[1] + width >= SizeX)
        length == IF shrink THEN length0 - width ELSE length0
        origin == IF shrink THEN opos0
                  ELSE IF direction = "N" THEN PAdd(opos0, <<0, width>>)
                  ELSE IF direction = "W" THEN PAdd(opos0, <<width, 0>>)
                  ELSE opos0
        pos    == CASE direction = "N" -> PSub(origin, <<0, length>>)
                    [] direction = "W" -> PSub(origin, <<length, 0>>)
                    [] OTHER -> origin
        size   == IF direction \in {"N", "S"} THEN <<width, length>> ELSE <<length, width>>
        seg    == _ME(CORRIDOR, pos, size, origin, direction, length)
        p      == PAdd(pos, <<size[1] \div 2, size[2] \div 2>>)
    IN  IF raw * 10 < 4 * Lcg.m THEN << [seg EXCEPT !.flat_light = TRUE] >>
        ELSE IF raw * 10 < 9 * Lcg.m THEN << _ME(LIGHT, p, <<1, 1>>, p, "N", 0), seg >>
        ELSE << seg >>

(* ---- the state of a generate() call ---- *)

\* The seeds of the runs: the stream positions a level is generated from
Seeds == {56, 349}

EmptyLayers == [l \in Layers |-> EmptyLayer]

\* the locals of the corridor routine generate() is in (_gen_corridor_to_area
\* or _gen_corridor_wriggle)
NoCall ==
    [curr_pos |-> NoPos, direction |-> "N", edge |-> "N", width |-> 0, num_bends |-> 0,
     terminating_pos |-> NoPos, sanity |-> 0, c_segs |-> <<>>, length |-> 0, len_used |-> 0]

\* the locals of generate()
NoLocals ==
    [sanity |-> 0, main_len |-> 0, used_len |-> 0, index_len |-> 0, c_idx |-> 0,
     delta_len |-> 0, room_count |-> 0, err |-> "", call |-> NoCall]

\* the places a generate() call can be at
Phases ==
    {"idle", "start", "target", "bends", "minor", "wriggle", "gate", "rooms", "room",
     "patterns", "place", "translate", "monsters", "items", "keys", "keyloop", "finish",
     "done", "failed"}

\* no generate() call is running
GenIdle ==
    /\ rng = 0 /\ pc = "idle" /\ loc = NoLocals
    /\ corridors = <<>> /\ rooms = <<>> /\ _map = <<>>
    /\ glayers = EmptyLayers /\ tcod = {} /\ restarted = FALSE
    /\ history = [seed |-> 0, run |-> 0, tiles |-> EmptyLayer, rejected |-> FALSE]

\* Map.__init__ and TypeAMap.__init__ with a seed of S, generate() about to
\* be called
Seeded(S) ==
    /\ rng \in S /\ pc = "start" /\ loc = NoLocals
    /\ corridors = <<>> /\ rooms = <<>> /\ _map = <<>>
    /\ glayers = EmptyLayers /\ tcod = {} /\ restarted = FALSE
    /\ history = [seed |-> rng, run |-> 1, tiles |-> EmptyLayer, rejected |-> FALSE]
GenInit == Seeded(Seeds)

\* generate() ends with an exception
Fail(err) ==
    /\ pc' = "failed"
    /\ loc' = [loc EXCEPT !.err = err]

RECURSIVE SumLength(_, _, _)
\* the sum of the lengths of the elements cs[lo..hi]
SumLength(cs, lo, hi) ==
    IF lo > hi THEN 0
    ELSE IF lo = hi THEN cs[lo].length
    ELSE LET mid == (lo + hi) \div 2
         IN  SumLength(cs, lo, mid) + SumLength(cs, mid + 1, hi)

(* ---- the main corridor: generate() lines 1112-1141, _gen_corridor_to_area ---- *)

\* generate() up to the call of _gen_corridor_to_area and that routine up to
\* its first choice of a terminating position (lines 1025-1031)
GenerateStart ==
    /\ pc = "start"
    /\ LET m0 == CommitAll(ZeroMap, edges)
           r1 == LcgNext(rng)
           d  == _gen_get_compass_dir(r1)
           o  == _gen_get_compass_opposite(d)
           st == _gen_get_edge_tile(m0, r1, o, 2, 4)
           r2 == LcgNext(st.rng)
           w  == 2
           tp == _gen_get_edge_tile(m0, r2, o, CORRIDOR_MIN_LENGTH + w + 1,
                                    CORRIDOR_MIN_LENGTH + w + 6)
       IN  /\ _map' = m0
           /\ rng' = tp.rng
           /\ loc' = [NoLocals EXCEPT !.call =
                        [NoCall EXCEPT !.curr_pos = st.pos, !.direction = d, !.edge = o,
                                       !.width = w,
                                       !.num_bends = random_get_int(r2, 2, CORRIDOR_MAX_BENDS),
                                       !.terminating_pos = tp.pos]]
    /\ corridors' = <<>>
    /\ rooms' = <<>>
    /\ pc' = "target"
    /\ UNCHANGED <<glayers, tcod, restarted>>
    /\ UNCHANGED <<mapvars, oravars, runvars>>

\* one test of the loop of lines 1032-1036: a terminating position too close
\* to the start is drawn again, at most SANITY_LIMIT times
TargetRetry ==
    /\ pc = "target"
    /\ LET c == loc.call
           w == c.width
       IN  IF Dist2(c.curr_pos, c.terminating_pos) <
                    (CORRIDOR_MIN_LENGTH * 5) * (CORRIDOR_MIN_LENGTH * 5)
           THEN IF c.sanity + 1 > SANITY_LIMIT
                THEN \* break
                     /\ loc' = [loc EXCEPT !.call.sanity = c.sanity + 1]
                     /\ pc' = "bends"
                     /\ UNCHANGED rng
                ELSE LET tp == _gen_get_edge_tile(_map, rng, c.edge,
                                                  CORRIDOR_MIN_LENGTH + w + 1,
                                                  CORRIDOR_MIN_LENGTH + w + 6)
                     IN  /\ loc' = [loc EXCEPT !.call.sanity = c.sanity + 1,
                                               !.call.terminating_pos = tp.pos]
                         /\ rng' = tp.rng
                         /\ pc' = "target"
           ELSE /\ pc' = "bends"
                /\ UNCHANGED <<loc, rng>>
    /\ UNCHANGED <<corridors, rooms, _map, glayers, tcod, restarted>>
    /\ UNCHANGED <<mapvars, oravars, runvars>>

\* one turn of the loop of lines 1038-1069: the next segment of the main
\* corridor; when the loop ends, the routine returns and generate() goes on
\* to line 1152
MainBend ==
    /\ pc = "bends"
    /\ LET c    == loc.call
           w    == c.width
           r1   == LcgNext(rng)
           r2   == LcgNext(r1)
           r3   == LcgNext(r2)
           v    == PSub(c.terminating_pos, c.curr_pos)
           \* num_bends == 1
           dl   == _gen_dir_from_pos(c.curr_pos, c.terminating_pos)
           \* num_bends == 2
           l0   == IF c.direction \in {"N", "S"} THEN Abs(v[2]) ELSE Abs(v[1])
           dir2 == IF l0 > _gen_get_available_dist(c.curr_pos, c.direction)
                   THEN _gen_get_compass_opposite(c.direction) ELSE c.direction
           l2   == IF l0 > _gen_get_available_dist(c.curr_pos, dir2)
                   THEN _gen_get_available_dist(c.curr_pos, dir2) - CORRIDOR_MIN_LENGTH - w
                   ELSE l0
           \* num_bends > 2
           l_min == _gen_get_available_dist(c.curr_pos, c.direction) - CORRIDOR_MIN_LENGTH - w
           dir3 == IF l_min > CORRIDOR_MIN_LENGTH + w + 1 THEN c.direction
                   ELSE IF l_min <= 0 THEN _gen_get_compass_opposite(c.direction)
                   ELSE c.direction
           l3   == random_get_int(r1, CORRIDOR_MIN_LENGTH + w + 1,
                        _gen_get_available_dist(c.curr_pos, dir3) - CORRIDOR_MIN_LENGTH - w)
           segs == IF c.num_bends = 1 THEN _gen_corridor_seg(c.curr_pos, dl[1], dl[2], w, r1)
                   ELSE IF c.num_bends = 2 THEN _gen_corridor_seg(c.curr_pos, dir2, l2, w, r1)
                   ELSE _gen_corridor_seg(c.curr_pos, dir3, l3, w, r2)
           seg  == segs[Len(segs)]
           all  == corridors \o c.c_segs
       IN  IF c.num_bends > 0 /\ Dist2(c.curr_pos, c.terminating_pos) > (w + 1) * (w + 1)
           THEN /\ loc' = [loc EXCEPT
                             !.call.c_segs = c.c_segs \o segs,
                             !.call.direction =
                                 IF c.num_bends = 1 THEN c.direction
                                 ELSE IF c.num_bends = 2 THEN dir2
                                 ELSE _gen_get_compass_turn(dir3, r3),
                             !.call.num_bends = c.num_bends - 1,
                             !.call.curr_pos =
                                 PAdd(c.curr_pos, _gen_pos_from_dir(seg.direction, seg.length))]
                /\ rng' = IF c.num_bends <= 2 THEN r1 ELSE r3
                /\ pc' = "bends"
                /\ UNCHANGED corridors
           ELSE /\ corridors' = all
                /\ loc' = [loc EXCEPT !.main_len = SumLength(all, 1, Len(all)),
                                      !.used_len = 0, !.index_len = 0, !.c_idx = 0,
                                      !.sanity = 0]
                /\ pc' = "minor"
                /\ UNCHANGED rng
    /\ UNCHANGED <<rooms, _map, glayers, tcod, restarted>>
    /\ UNCHANGED <<mapvars, oravars, runvars>>

(* ---- the minor corridors: generate() lines 1152-1178, _gen_corridor_wriggle ---- *)

\* lines 1160-1166: walk index_len along the corridor list from c_idx
\* (counted from 0): the element reached and the length left on it
IndexWalk(cs, c_idx, index_len) ==
    LET n     == Len(cs)
        left(j) == index_len - SumLength(cs, c_idx + 1, j)
        stops == {j \in c_idx..(n - 1) : left(j) <= cs[j + 1].length}
    IN  IF stops = {}
        THEN [c_idx |-> n - 1, index_len |-> cs[n].length]
        ELSE LET j == CHOOSE i \in stops : \A k \in stops : i <= k
             IN  [c_idx |-> j, index_len |-> left(j)]

\* one test of the loop of lines 1153-1178: the next minor corridor is placed
\* on the main corridor and _gen_corridor_wriggle is entered (lines 1076-1081)
MinorCorridor ==
    /\ pc = "minor"
    /\ IF loc.used_len < loc.main_len
       THEN IF loc.sanity + 1 > SANITY_LIMIT
            THEN /\ Fail("AssertionError")
                 /\ UNCHANGED rng
            ELSE LET r1 == LcgNext(rng)
                     r2 == LcgNext(r1)
                     r3 == LcgNext(r2)
                     r4 == LcgNext(r3)
                     delta_len == random_get_int(r1, 0, CORRIDOR_MINOR_FREQ) * CORRIDOR_MINOR_STEP
                     at == IndexWalk(corridors, loc.c_idx, loc.index_len + delta_len)
                     c  == corridors[at.c_idx + 1]
                     intersect == PAdd(c.opos, _gen_pos_from_dir(c.direction, at.index_len))
                 IN  /\ loc' = [loc EXCEPT
                                  !.sanity = loc.sanity + 1,
                                  !.delta_len = delta_len,
                                  !.index_len = at.index_len,
                                  !.c_idx = at.c_idx,
                                  !.call = [NoCall EXCEPT
                                      !.curr_pos = intersect,
                                      !.direction = _gen_get_compass_turn(c.direction, r2),
                                      !.length = random_get_int(r3, CORRIDOR_MINOR_LEN \div 2,
                                                                CORRIDOR_MINOR_LEN),
                                      !.width = 1,
                                      !.num_bends = random_get_int(r4, 0, CORRIDOR_MINOR_BEND)]]
                     /\ rng' = r4
                     /\ pc' = "wriggle"
       ELSE /\ pc' = "gate"
            /\ UNCHANGED <<loc, rng>>
    /\ UNCHANGED <<corridors, rooms, _map, glayers, tcod, restarted>>
    /\ UNCHANGED <<mapvars, oravars, runvars>>

\* one test of the loop of lines 1082-1105; when the loop ends, the routine
\* returns its segments and generate() adds them (lines 1172-1178)
WriggleStep ==
    /\ pc = "wriggle"
    /\ LET c  == loc.call
           w  == c.width
           r1 == LcgNext(rng)
           wanted0 == ((CORRIDOR_LENGTH_VAR[1] * Lcg.m
                          + (CORRIDOR_LENGTH_VAR[2] - CORRIDOR_LENGTH_VAR[1]) * r1) * c.length)
                      \div (10 * Lcg.m * (1 + c.num_bends))
           wanted1 == IF wanted0 + c.len_used > c.length THEN c.length - c.len_used
                      ELSE wanted0
           len_wanted == IF wanted1 < CORRIDOR_MIN_LENGTH THEN CORRIDOR_MIN_LENGTH ELSE wanted1
           len_avail == _gen_get_available_dist(c.curr_pos, c.direction)
           fits == len_avail > len_wanted + 1
           r2 == IF fits THEN LcgNext(r1) ELSE r1
           r3 == LcgNext(r2)
           pos2 == IF fits THEN PAdd(c.curr_pos, _gen_pos_from_dir(c.direction, len_wanted))
                   ELSE c.curr_pos
           turn == _gen_get_compass_turn(c.direction, r3)
           back == IF c.len_used < c.length /\ c.sanity + 1 > SANITY_LIMIT
                   THEN [c EXCEPT !.sanity = c.sanity + 1] ELSE c
       IN  IF c.len_used < c.length /\ c.sanity + 1 <= SANITY_LIMIT
           THEN /\ loc' = [loc EXCEPT
                             !.call.sanity = c.sanity + 1,
                             !.call.c_segs =
                                 IF fits
                                 THEN c.c_segs \o _gen_corridor_seg(c.curr_pos, c.direction,
                                                                    len_wanted, w, r2)
                                 ELSE c.c_segs,
                             !.call.len_used = IF fits THEN c.len_used + len_wanted
                                               ELSE c.len_used,
                             !.call.curr_pos = pos2,
                             !.call.direction =
                                 IF _gen_get_available_dist(pos2, turn) < CORRIDOR_MIN_LENGTH + w + 1
                                 THEN _gen_get_compass_opposite(turn) ELSE turn]
                /\ rng' = r3
                /\ pc' = "wriggle"
                /\ UNCHANGED corridors
           ELSE \* the loop is over, by its test or by the break of line 1086
                /\ corridors' = corridors \o c.c_segs
                /\ loc' = [loc EXCEPT !.used_len = loc.used_len + loc.delta_len,
                                      !.call = back]
                /\ pc' = "minor"
                /\ UNCHANGED rng
    /\ UNCHANGED <<rooms, _map, glayers, tcod, restarted>>
    /\ UNCHANGED <<mapvars, oravars, runvars>>

(* ---- the corridor coverage gate: generate() lines 1180-1194 ---- *)

\* one turn of the loop of lines 1183-1187 on <<coverage_tl_pos, coverage_br_pos>>
CoverageStep(acc, c) ==
    << IF Position_gt(acc[1], c.pos) THEN c.pos ELSE acc[1],
       IF Position_gt(PAdd(c.pos, c.size), acc[2]) THEN PAdd(c.pos, c.size) ELSE acc[2] >>

RECURSIVE CoverageFold(_, _, _, _)
\* the loop of lines 1183-1187 over cs[lo..hi], in list order
CoverageFold(acc, cs, lo, hi) ==
    IF lo > hi THEN acc
    ELSE IF lo = hi THEN CoverageStep(acc, cs[lo])
    ELSE LET mid  == (lo + hi) \div 2
             left == CoverageFold(acc, cs, lo, mid)
         IN  \* the test makes TLC evaluate the first half before the second
             IF left = left THEN CoverageFold(left, cs, mid + 1, hi) ELSE acc

\* line 1188: the corridors' bounding diagonal is shorter than
\* REJECT_COVERAGE_PC of the map's
CoverageRejects(cs) ==
    LET cov == CoverageFold(<< <<SizeX, SizeY>>, <<0, 0>> >>, cs, 1, Len(cs))
    IN  Dist2(cov[1], cov[2]) * 100 * 100 <
            (SizeX * SizeX + SizeY * SizeY) * REJECT_COVERAGE_PC * REJECT_COVERAGE_PC

\* line 1190: return self.generate().  Nothing is counted and nothing is
\* passed to the new call.  The stream goes on from wherever the rejected
\* attempt left it, and what the generator yields from there is outside the
\* program: the new attempt starts at any position of Seeds.
Restart ==
    /\ pc' = "start"
    /\ rng' \in Seeds
    /\ restarted' = TRUE
    /\ loc' = NoLocals
    /\ corridors' = <<>>
    /\ rooms' = <<>>

GateReject ==
    /\ pc = "gate"
    /\ CoverageRejects(corridors)
    /\ Restart
    /\ UNCHANGED <<_map, glayers, tcod>>
    /\ UNCHANGED <<mapvars, oravars, runvars>>

\* lines 1193-1194
GateCommit ==
    /\ pc = "gate"
    /\ ~CoverageRejects(corridors)
    /\ LET bad == FirstBadCommit(corridors)
       IN  IF bad # 0
           THEN /\ Fail(CommitError(corridors[bad]))
                /\ _map' = CommitAll(_map, SubSeq(corridors, 1, bad - 1))
           ELSE /\ _map' = CommitAll(_map, corridors)
                /\ pc' = "rooms"
                /\ UNCHANGED loc
    /\ UNCHANGED <<rng, corridors, rooms, glayers, tcod, restarted>>
    /\ UNCHANGED <<mapvars, oravars, runvars>>

(* ---- the rooms: generate() lines 1196-1208, _gen_room ---- *)

\* _gen_get_centre_tile: the position returned and the stream after it
RECURSIVE _gen_get_centre_tile(_, _, _)
_gen_get_centre_tile(m, x, border) ==
    LET r1 == LcgNext(x)
        r2 == LcgNext(r1)
        px == random_get_int(r1, border, SizeX - border - 1)
        py == random_get_int(r2, border, SizeY - border - 1)
    IN  IF m[px][py] = 0 THEN [pos |-> <<px, py>>, rng |-> r2]
        ELSE _gen_get_centre_tile(m, r2, border)

\* the locals of _gen_room at line 829
RoomCall(origin) ==
    [opos |-> origin, direction |-> "N", pos |-> origin, size |-> <<0, 0>>,
     bounds |-> [N |-> BOUNDARY_UNSET, S |-> BOUNDARY_UNSET,
                 E |-> BOUNDARY_UNSET, W |-> BOUNDARY_UNSET],
     r_segs |-> <<>>, sanity |-> 0, err |-> ""]

\* m[x][y] is an index Python accepts
PyInGrid(c) == c[1] >= -SizeX /\ c[1] < SizeX /\ c[2] >= -SizeY /\ c[2] < SizeY
\* m[x][y] as Python reads it
PyCell(m, c) == m[PyIdx(c[1], SizeX)][PyIdx(c[2], SizeY)]

MinOf(a, b) == IF a < b THEN a ELSE b
MaxOf(a, b) == IF a > b THEN a ELSE b

\* the coordinate of c a bound in direction d records
AxisOf(d, c) == IF d \in {"N", "S"} THEN c[2] ELSE c[1]

\* one turn of the loop of lines 829-930 (after the sanity test) on the locals f
_gen_room_turn(m, f) ==
    LET d0     == f.direction
        unset0 == f.bounds[d0] = BOUNDARY_UNSET
        size1  == IF ~unset0 THEN f.size
                  ELSE IF d0 \in {"N", "S"} THEN <<f.size[1], f.size[2] + 1>>
                  ELSE <<f.size[1] + 1, f.size[2]>>
        length == IF unset0 THEN AxisOf(d0, size1)
                  ELSE Abs(f.bounds[d0] - AxisOf(d0, f.pos)) - 1
        target == PAdd(f.pos, _gen_pos_from_dir(d0, length))
        line   == (MinOf(f.pos[1], target[1])..MaxOf(f.pos[1], target[1])) \X
                  (MinOf(f.pos[2], target[2])..MaxOf(f.pos[2], target[2]))
        stops  == {c \in line : ~PyInGrid(c) \/ PyCell(m, c) > 0}
        hit    == CHOOSE c \in stops :
                      \A e \in stops : c[1] < e[1] \/ (c[1] = e[1] /\ c[2] <= e[2])
        back   == PSub(target, _gen_pos_from_dir(d0, 1))
        lt     == _gen_get_compass_left(d0)
    IN  IF stops = {}
        THEN [f EXCEPT !.size = size1, !.pos = target,
                       !.direction = _gen_get_compass_right(d0)]
        ELSE IF ~PyInGrid(hit)
        THEN [f EXCEPT !.err = "IndexError"]
        ELSE IF hit = target
        THEN \* hit at the end of the edge
             IF ~unset0
             THEN [f EXCEPT !.size = size1, !.pos = back,
                            !.direction = _gen_get_compass_right(d0)]
             ELSE [f EXCEPT
                     !.size = size1, !.pos = back,
                     !.direction = _gen_get_compass_right(d0),
                     !.r_segs = Append(f.r_segs,
                         _ME(DOOR, PAdd(back, _gen_pos_from_dir(_gen_get_compass_right(d0), 1)),
                             <<1, 1>>, hit, "None", 0)),
                     !.bounds = [b \in DOMAIN f.bounds |->
                         IF b = d0 THEN AxisOf(d0, hit)
                         ELSE IF b = lt /\ f.bounds[lt] = BOUNDARY_UNSET
                         THEN AxisOf(lt, PAdd(hit, _gen_pos_from_dir(lt, 1)))
                         ELSE f.bounds[b]]]
        ELSE IF f.bounds[lt] # BOUNDARY_UNSET
        THEN IF ~unset0
             THEN [f EXCEPT !.size = size1, !.pos = back,
                            !.direction = _gen_get_compass_right(d0)]
             ELSE [f EXCEPT !.size = size1,
                            !.pos = PSub(back, _gen_pos_from_dir(d0, 1)),
                            !.direction = _gen_get_compass_right(d0),
                            !.bounds = [f.bounds EXCEPT ![d0] = AxisOf(d0, hit)]]
        ELSE \* collision: turn back anticlockwise
             [f EXCEPT
                !.size = IF lt \in {"N", "S"} THEN <<size1[1], size1[2] - 1>>
                         ELSE <<size1[1] - 1, size1[2]>>,
                !.pos = PSub(f.pos, _gen_pos_from_dir(lt, 1)),
                !.direction = _gen_get_compass_right(lt),
                !.r_segs = Append(f.r_segs,
                    _ME(DOOR, PSub(hit, _gen_pos_from_dir(lt, 1)), <<1, 1>>, hit, "None", 0)),
                !.bounds = [f.bounds EXCEPT ![lt] = AxisOf(lt, hit)]]

\* lines 932-968: what _gen_room returns once its loop is over; raw is the
\* light roll, drawn for a room that is kept only
_gen_room_result(f, raw) ==
    LET tl   == <<f.bounds["W"] + 2, f.bounds["N"] + 2>>
        br   == <<f.bounds["E"] - 1, f.bounds["S"] - 1>>
        size == PSub(br, tl)
        segs == Append(f.r_segs, _ME(ROOM, tl, size, f.opos, "None", 0))
        mid  == PAdd(tl, <<size[1] \div 2, size[2] \div 2>>)
    IN  IF Position_gt(tl, f.opos) \/ Position_gt(f.opos, br) THEN <<>>
        ELSE IF size[1] < ROOM_MIN_WIDTH \/ size[2] < ROOM_MIN_WIDTH THEN <<>>
        ELSE IF size[1] * size[2] > ROOM_MAX_AREA THEN <<>>
        ELSE IF raw * 10 < 4 * Lcg.m
        THEN [i \in 1..Len(segs) |-> [segs[i] EXCEPT !.flat_light = TRUE]]
        ELSE IF raw * 10 < 9 * Lcg.m
        THEN Append(segs, _ME(LIGHT, mid, <<1, 1>>, mid, "None", 0))
        ELSE segs

\* the test of the loop of line 1198 and, if it holds, line 1199 up to the
\* loop of _gen_room; if not, lines 1207-1208
RoomStart ==
    /\ pc = "rooms"
    /\ LET r1 == LcgNext(rng)
           at == _gen_get_centre_tile(_map, r1, 3)
       IN  IF loc.room_count < random_get_int(r1, MIN_ROOMS, MAX_ROOMS)
           THEN /\ loc' = [loc EXCEPT !.call = RoomCall(at.pos)]
                /\ rng' = at.rng
                /\ pc' = "room"
                /\ UNCHANGED _map
           ELSE /\ _map' = CommitAll(_map, edges)
                /\ rng' = r1
                /\ pc' = "patterns"
                /\ UNCHANGED loc
    /\ UNCHANGED <<corridors, rooms, glayers, tcod, restarted>>
    /\ UNCHANGED <<mapvars, oravars, runvars>>

\* one test of the loop of lines 829-930; when the loop is over, the rest of
\* _gen_room and lines 1200-1204
RoomGrow ==
    /\ pc = "room"
    /\ LET f    == loc.call
           lo   == MinOf(MinOf(f.bounds["N"], f.bounds["S"]),
                         MinOf(f.bounds["E"], f.bounds["W"]))
           g    == _gen_room_turn(_map, [f EXCEPT !.sanity = f.sanity + 1])
           r1   == LcgNext(rng)
           r    == _gen_room_result(f, r1)
           bad  == FirstBadCommit(r)
       IN  IF lo = BOUNDARY_UNSET
           THEN IF f.sanity + 1 > SANITY_LIMIT * 10
                THEN /\ Fail("AssertionError")
                     /\ UNCHANGED <<rng, rooms, _map>>
                ELSE IF g.err # ""
                THEN /\ Fail(g.err)
                     /\ UNCHANGED <<rng, rooms, _map>>
                ELSE /\ loc' = [loc EXCEPT !.call = g]
                     /\ pc' = "room"
                     /\ UNCHANGED <<rng, rooms, _map>>
           ELSE IF r = <<>>
                THEN /\ pc' = "rooms"
                     /\ UNCHANGED <<loc, rng, rooms, _map>>
                ELSE /\ rng' = r1
                     /\ rooms' = rooms \o r
                     /\ IF bad # 0
                        THEN /\ pc' = "failed"
                             /\ loc' = [loc EXCEPT !.err = CommitError(r[bad]),
                                                   !.room_count = loc.room_count + 1]
                             /\ _map' = CommitAll(_map, SubSeq(r, 1, bad - 1))
                        ELSE /\ pc' = "rooms"
                             /\ loc' = [loc EXCEPT !.room_count = loc.room_count + 1]
                             /\ _map' = CommitAll(_map, r)
    /\ UNCHANGED <<corridors, glayers, tcod, restarted>>
    /\ UNCHANGED <<mapvars, oravars, runvars>>

(* ---- map patterns (MapPattern, Tile.get_all_tiles in src/tiles.py) ---- *)

EMPTY == 0
ANY == 255

\* MapPattern.DATA_MAP
DATA_MAP ==
    (" " :> EMPTY) @@ ("." :> (CORRIDOR + ROOM)) @@ ("r" :> ROOM) @@ ("c" :> CORRIDOR) @@
    ("#" :> WALL) @@ ("+" :> DOOR) @@ ("X" :> SPECIAL) @@ ("?" :> ANY)

FlagBits == {1, 2, 4, 8, 16, 32, 64, 128}
\* a & b is not zero
BitAndNonZero(a, b) == \E f \in FlagBits : HasFlag(a, f) /\ HasFlag(b, f)

\* a 3 by 3 array of arrays, g[ci][ri] counted from 1
Grid3(f(_, _)) ==
    << <<f(1, 1), f(1, 2), f(1, 3)>>,
       <<f(2, 1), f(2, 2), f(2, 3)>>,
       <<f(3, 1), f(3, 2), f(3, 3)>> >>

\* MapPattern.__init__ for three rows of three characters: the masks kept
MapPattern(rows) ==
    LET x(ci, ri) == IF rows[ci][ri] \in DOMAIN DATA_MAP THEN DATA_MAP[rows[ci][ri]]
                     ELSE EMPTY
        w  == Len(rows)
        h  == Len(rows[1])
        r0(a, b) == x(a, b)
        r1(a, b) == x(b, w + 1 - a)
        r2(a, b) == x(w + 1 - a, h + 1 - b)
        r3(a, b) == x(h + 1 - b, a)
        m0 == Grid3(r0)
        m1 == Grid3(r1)
        m2 == Grid3(r2)
        m3 == Grid3(r3)
    IN  IF m0 = m1 THEN <<m0, m3>>
        ELSE IF m0 = m2 THEN <<m0, m1, m3>>
        ELSE <<m0, m1, m2, m3>>

\* the test of line 88 without its second half, an empty cell fitting no mask
MaskFits_shared(m, mask, mci, mri) ==
    \A kci \in -1..1 : \A kri \in -1..1 :
        BitAndNonZero(m[mci + kci][mri + kri], mask[kci + 2][kri + 2])
\* the test of line 88 for one mask at map cell (mci, mri)
MaskFits(m, mask, mci, mri) ==
    \A kci \in -1..1 : \A kri \in -1..1 :
        LET v == m[mci + kci][mri + kri]
            k == mask[kci + 2][kri + 2]
        IN  BitAndNonZero(v, k) \/ (v = 0 /\ HasFlag(k, WALL))

RECURSIVE apply_to(_, _, _, _)
\* MapPattern.apply_to over the cells numbered lo..hi, column by column: a
\* cell is listed once for each mask that fits
apply_to(m, masks, lo, hi) ==
    IF lo = hi
    THEN LET rows == Cardinality(DOMAIN m[0]) - 2
             mci  == 1 + (lo \div rows)
             mri  == 1 + (lo % rows)
             n   == Cardinality({k \in 1..Len(masks) : MaskFits(m, masks[k], mci, mri)})
         IN  [i \in 1..n |-> <<mci, mri>>]
    ELSE LET mid == (lo + hi) \div 2
         IN  apply_to(m, masks, lo, mid) \o apply_to(m, masks, mid + 1, hi)

\* the patterns attribute of the tile classes, a row a sequence of characters
TilePatterns ==
    [
     FloorTeleport |->
        << << <<"?", "#", "?">>, <<"#", ".", ".">>, <<"?", "#", "?">> >>,
           << <<"#", "#", "?">>, <<"#", ":", ":">>, <<"?", ":", ":">> >> >>,
     FloorCharger |->
        << << <<"#", "#", "#">>, <<"r", "r", "r">>, <<"r", "r", "r">> >> >>,
     Crate |->
        << << <<"r", "r", "r">>, <<"r", "r", "r">>, <<"r", "r", "r">> >>,
           << <<"c", "c", "c">>, <<"c", "c", "c">>, <<"#", "#", "#">> >> >>,
     Window |->
        << << <<"r", "r", "r">>, <<"#", "#", "#">>, <<".", ".", ".">> >> >>,
     Table |->
        << << <<"r", "r", "r">>, <<"r", "r", "r">>, <<"r", "r", "r">> >> >>,
     Locker |->
        << << <<".", ".", ".">>, <<"#", "#", "#">>, <<"#", "#", "#">> >> >>,
     WallPanel |->
        << << <<".", ".", ".">>, <<"#", "#", "#">>, <<"#", "#", "#">> >> >>,
     ClankyFloor |->
        << << <<"#", "#", "#">>, <<"c", "c", "c">>, <<"#", "#", "#">> >> >>,
     CameraConsole |->
        << << <<"#", "#", "#">>, <<"r", "r", "r">>, <<"r", "r", "r">> >> >>]

\* place_min and place_max of the tile classes
Placing ==
    [FloorTeleport |-> <<2, 5>>, FloorCharger |-> <<1, 2>>, Crate |-> <<5, 10>>,
     Window |-> <<0, 10>>, Table |-> <<10, 20>>, Locker |-> <<3, 10>>,
     WallPanel |-> <<7, 13>>, ClankyFloor |-> <<5, 25>>, CameraConsole |-> <<1, 2>>]

\* sorted(r.keys(), key=lambda a: a.__name__)
SortedTypes ==
    <<"CameraConsole", "ClankyFloor", "Crate", "FloorCharger", "FloorTeleport",
      "Locker", "Table", "WallPanel", "Window">>

\* pattern_map.items() (line 155) lists the patterns in the order of the
\* dict: for each class, its patterns as inserted or the other way round
\* (the keys hash by the pattern's text, and the order of a dict is the
\* insertion order only since Python 3.7)
ItemsOrders ==
    {ord \in [DOMAIN TilePatterns -> BOOLEAN] :
        \A T \in DOMAIN TilePatterns : ord[T] => Len(TilePatterns[T]) > 1}
\* the MapPattern objects of the classes: class and number in its patterns
PatternObjects ==
    UNION {{<<C, k>> : k \in 1..Len(TilePatterns[C])} : C \in DOMAIN TilePatterns}
\* the equality of dict keys: MapPattern has __hash__ and no __eq__, two
\* patterns are the same key when they are the same object
KeyEq(p, q) == p = q
\* lines 147-152: the keys of pattern_map, a pattern being entered unless a
\* key equal to it is there
pattern_map == {p \in PatternObjects : \A q \in PatternObjects : KeyEq(p, q) => p = q}

\* which of the n patterns of a class items() lists as the i-th
Listed(n, rev, i) == IF rev THEN n + 1 - i ELSE i

\* line 156, p_list = p.apply_to(map_array), for every pattern: class,
\* number of the pattern in the class's patterns, the positions it fits at
PatternHits(m) ==
    {<<p[1], p[2],
       apply_to(m, MapPattern(TilePatterns[p[1]][p[2]]), 0, (SizeX - 2) * (SizeY - 2) - 1)>> :
        p \in pattern_map}

RECURSIVE PatternLists(_, _, _, _)
\* r[T] before it is sorted: the lists of T's patterns, one after the other
\* as items() lists them
PatternLists(hits, T, rev, i) ==
    IF i > Len(TilePatterns[T]) THEN <<>>
    ELSE LET k == Listed(Len(TilePatterns[T]), rev, i)
         IN  (CHOOSE h \in hits : h[1] = T /\ h[2] = k)[3]
             \o PatternLists(hits, T, rev, i + 1)

RECURSIVE SortKeys(_, _, _, _, _)
\* lines 164-165 from the i-th class of SortedTypes on: one key is drawn for
\* each entry of r[T]; x is the stream before the first of them
SortKeys(x, hits, i, acc, ord) ==
    IF i > Len(SortedTypes) THEN [Tgat |-> acc, rng |-> x]
    ELSE LET T   == SortedTypes[i]
             lst == PatternLists(hits, T, ord[T], 1)
         IN  SortKeys(Draw(x, Len(lst)), hits, i + 1,
                      acc @@ (T :> [k \in 1..Len(lst) |-> <<Draw(x, k), lst[k]>>]), ord)

\* Tile.get_all_tiles: every position of r[T] with the sort key drawn for it
get_all_tiles(x, hits, ord) == SortKeys(x, hits, 1, <<>>, ord)

RECURSIVE LastSorted(_, _, _)
\* the index in ps[lo..hi] of the entry with the largest key: the entry the
\* sorted list ends with
LastSorted(ps, lo, hi) ==
    IF lo = hi THEN lo
    ELSE LET mid == (lo + hi) \div 2
             a   == LastSorted(ps, lo, mid)
             b   == LastSorted(ps, mid + 1, hi)
         IN  IF ps[a][1] > ps[b][1] THEN a ELSE b

(* ---- the features: _gen_apply_patterns, src/maps.py lines 449-466 ---- *)

\* T_wanted is not drawn yet
NotDrawn == -1

\* line 453: Tile.get_all_tiles(self.map_rng, map_array)
PatternsStart ==
    /\ pc = "patterns"
    /\ \E hits \in {PatternHits(_map)} : \E ord \in ItemsOrders :
         LET g == get_all_tiles(rng, hits, ord)
         IN  /\ loc' = [loc EXCEPT !.call = [Tgat |-> g.Tgat, t_idx |-> 1,
                                             T_wanted |-> NotDrawn, sanity |-> 0,
                                             keys |-> {<<h[1], h[2]>> : h \in hits}]]
             /\ rng' = g.rng
    /\ pc' = "place"
    /\ UNCHANGED <<corridors, rooms, _map, glayers, tcod, restarted>>
    /\ UNCHANGED <<mapvars, oravars, runvars>>

\* one step of lines 456-466: the draw of T_wanted for the next class, or one
\* test of the loop of line 459 and the pop() it leads to
PlaceStep ==
    /\ pc = "place"
    /\ LET f    == loc.call
           T    == SortedTypes[f.t_idx]
           ps   == f.Tgat[T]
           r1   == LcgNext(rng)
           top  == LastSorted(ps, 1, Len(ps))
           p    == ps[top][2]
           rest == SubSeq(ps, 1, top - 1) \o SubSeq(ps, top + 1, Len(ps))
           t    == _map[p[1]][p[2]]
           tl1  == IF HasFlag(t, CORRIDOR) \/ HasFlag(t, ROOM)
                   THEN CellAppend(glayers["Tile"], p, "Floor") ELSE glayers["Tile"]
       IN  IF f.t_idx > Len(SortedTypes)
           THEN /\ pc' = "translate"
                /\ UNCHANGED <<loc, rng, _map, glayers>>
           ELSE IF f.T_wanted = NotDrawn
           THEN /\ loc' = [loc EXCEPT !.call.T_wanted =
                             random_get_int(r1, Placing[T][1], Placing[T][2])]
                /\ rng' = r1
                /\ pc' = "place"
                /\ UNCHANGED <<_map, glayers>>
           ELSE IF Len(ps) > 0 /\ f.T_wanted > 0
           THEN /\ pc' = "place"
                /\ UNCHANGED rng
                /\ IF HasFlag(t, SPECIAL)
                   THEN /\ loc' = [loc EXCEPT !.call.Tgat[T] = rest]
                        /\ UNCHANGED <<_map, glayers>>
                   ELSE /\ loc' = [loc EXCEPT !.call.Tgat[T] = rest,
                                              !.call.T_wanted = f.T_wanted - 1]
                        /\ glayers' = [glayers EXCEPT !["Tile"] = CellAppend(tl1, p, T)]
                        /\ _map' = [_map EXCEPT ![p[1]][p[2]] = SetFlag(t, SPECIAL)]
           ELSE /\ loc' = [loc EXCEPT !.call.t_idx = f.t_idx + 1,
                                      !.call.T_wanted = NotDrawn]
                /\ pc' = "place"
                /\ UNCHANGED <<rng, _map, glayers>>
    /\ UNCHANGED <<corridors, rooms, tcod, restarted>>
    /\ UNCHANGED <<mapvars, oravars, runvars>>

(* ---- from the flag grid to terrain: generate() lines 1220-1298 ---- *)

\* the tests of lines 1236 and 1239 on a neighbour's flags
DoorSeesFloor(v) == HasFlag(v, CORRIDOR) \/ HasFlag(v, ROOM) \/ HasFlag(v, SPECIAL)
DoorSeesWall(v) == HasFlag(v, WALL) \/ HasFlag(v, DOOR) \/ v = 0

\* m_ns or m_ew of lines 1231-1250 for the two neighbours a and b
DoorAxis(a, b) ==
    IF DoorSeesWall(a) /\ DoorSeesWall(b) THEN -1
    ELSE IF DoorSeesFloor(a) /\ DoorSeesFloor(b) THEN 1
    ELSE 0

\* the test with the four compass neighbours alone
AdjoinsFlags_compass(m, x, y) ==
    m[x][y - 1] > 0 \/ m[x - 1][y] > 0 \/ m[x + 1][y] > 0 \/ m[x][y + 1] > 0
\* lines 1271-1279: a cell of the 3 by 3 block around (x, y) has a flag
AdjoinsFlags(m, x, y) == \E dx \in -1..1 : \E dy \in -1..1 : m[x + dx][y + dy] > 0

\* the classes of the tiles lines 1223-1286 add at (x, y), in the order added
TilesFor(m, x, y) ==
    LET t    == m[x][y]
        m_ns == IF y > 0 /\ y < SizeY - 1 THEN DoorAxis(m[x][y - 1], m[x][y + 1]) ELSE 0
        m_ew == IF x > 0 /\ x < SizeX - 1 THEN DoorAxis(m[x - 1][y], m[x + 1][y]) ELSE 0
    IN  IF HasFlag(t, SPECIAL) THEN <<>>
        ELSE IF HasFlag(t, DOOR)
        THEN IF (m_ns > 0 /\ m_ew < 0) \/ (m_ns < 0 /\ m_ew > 0) THEN <<"Floor", "Door">>
             ELSE IF m_ns <= 0 /\ m_ew <= 0 THEN <<"Wall">>
             ELSE <<"Floor">>
        ELSE IF HasFlag(t, CORRIDOR) THEN <<"Floor">>
        ELSE IF HasFlag(t, ROOM) THEN <<"Floor">>
        ELSE IF HasFlag(t, WALL) THEN <<"Wall">>
        ELSE IF t = 0 /\ x > 0 /\ y > 0 /\ x < SizeX - 1 /\ y < SizeY - 1
                /\ AdjoinsFlags(m, x, y)
        THEN <<"Wall">>
        ELSE <<>>

\* the count line 1283 would make if it were reached for every cell without a flag
MissCellsAnywhere(m) ==
    {c \in (0..(SizeX - 1)) \X (0..(SizeY - 1)) : m[c[1]][c[2]] = 0}

\* the cells line 1283 counts: no flag at all, and not inside the outer ring
MissCells(m) ==
    {c \in (0..(SizeX - 1)) \X (0..(SizeY - 1)) :
        /\ m[c[1]][c[2]] = 0
        /\ ~(c[1] > 0 /\ c[2] > 0 /\ c[1] < SizeX - 1 /\ c[2] < SizeY - 1)}

\* misses after the loops of lines 1220-1290
Misses(m) == Cardinality(MissCells(m))

\* line 1297: 1.0 - misses / (size.x * size.y) < REJECT_COVERAGE_SQ
GlobalRejects(misses) ==
    (SizeX * SizeY - misses) * 100 < REJECT_COVERAGE_SQ * SizeX * SizeY

\* the Tile layer after lines 1220-1286
TranslateTiles(ly, m) ==
    LET cells == {c \in (0..(SizeX - 1)) \X (0..(SizeY - 1)) : TilesFor(m, c[1], c[2]) # <<>>}
    IN  [c \in DOMAIN ly \cup cells |->
            (IF c \in DOMAIN ly THEN ly[c] ELSE <<>>) \o
            (IF c \in cells THEN TilesFor(m, c[1], c[2]) ELSE <<>>)]

\* the cells line 1290 puts a Light on, a radius drawn for each
LightCells(m) ==
    {c \in (0..(SizeX - 1)) \X (0..(SizeY - 1)) : HasFlag(m[c[1]][c[2]], LIGHT)}

\* lines 1220-1298
Translate ==
    /\ pc = "translate"
    /\ glayers' = [glayers EXCEPT !["Tile"] = TranslateTiles(@, _map)]
    /\ IF GlobalRejects(Misses(_map))
       THEN Restart
       ELSE /\ pc' = "monsters"
            /\ rng' = Draw(rng, Cardinality(LightCells(_map)))
            /\ loc' = [loc EXCEPT !.call = [i |-> 0, sanity |-> 0]]
            /\ UNCHANGED <<corridors, rooms, restarted>>
    /\ UNCHANGED <<_map, tcod>>
    /\ UNCHANGED <<mapvars, oravars, runvars>>

(* ---- monsters, items, evidence: generate() lines 1333-1344 ---- *)

\* walk_cost, in tenths, and may_block_movement of the tile classes
\* (the Tile.__init__ calls of src/tiles.py; a Door is made CLOSED)
TileWalkCost(c) ==
    CASE c \in {"Wall", "Locker", "WallPanel", "Window"} -> 0
      [] c = "FloorTeleport" -> 2
      [] c = "Door" -> 3
      [] OTHER -> 10
TileMayBlock(c) == c \in {"Locker", "WallPanel", "FloorTeleport"}

\* Traversable.blocks_movement of a tile of class c
TileBlocks(c, is_for_mapping) ==
    TileWalkCost(c) = 0 /\ (~is_for_mapping \/ TileMayBlock(c))

\* Map.is_blocked: the first tile at pos decides
is_blocked(ls, pos) ==
    IF pos \in DOMAIN ls["Tile"] /\ Len(ls["Tile"][pos]) > 0
    THEN TileBlocks(ls["Tile"][pos][1], FALSE)
    ELSE TRUE

RECURSIVE RandomClearUnchecked(_, _, _)
\* a variant of the loop that does not ask is_blocked
RandomClearUnchecked(ls, occupied, x) ==
    LET r1 == LcgNext(x)
        r2 == LcgNext(r1)
        p  == <<random_get_int(r1, 0, SizeX - 1), random_get_int(r2, 0, SizeY - 1)>>
    IN  IF p \notin occupied THEN [pos |-> p, rng |-> r2]
        ELSE RandomClearUnchecked(ls, occupied, r2)

RECURSIVE RandomClear(_, _, _)
\* the loop of lines 161-165: the position returned and the stream after it
RandomClear(ls, occupied, x) ==
    LET r1 == LcgNext(x)
        r2 == LcgNext(r1)
        p  == <<random_get_int(r1, 0, SizeX - 1), random_get_int(r2, 0, SizeY - 1)>>
    IN  IF p \notin occupied /\ ~is_blocked(ls, p) THEN [pos |-> p, rng |-> r2]
        ELSE RandomClear(ls, occupied, r2)

\* Map.find_random_clear: no cell of a player or a monster, no blocked cell
find_random_clear(ls, x) ==
    RandomClear(ls, DOMAIN ls["Player"] \cup DOMAIN ls["Monster"], x)

\* Monster.GENERATOR with each class's generator_weight in tenths
GENERATOR ==
    << <<"StaticCamera", 5>>, <<"CrateLifter", 5>>, <<"Dalek", 12>>,
       <<"SlowDalek", 5>>, <<"BetterDalek", 1>> >>

RECURSIVE MonsterPick(_, _)
\* the loop of lines 53-56 of src/monsters.py, r in tenths of 1/Lcg.m
MonsterPick(r, m_idx) ==
    IF r > GENERATOR[m_idx][2] * Lcg.m
    THEN MonsterPick(r - GENERATOR[m_idx][2] * Lcg.m, m_idx + 1)
    ELSE GENERATOR[m_idx][1]

\* Monster.random(rng, pos): the class of the monster made for the value drawn
MonsterRandom(raw) ==
    MonsterPick((GENERATOR[1][2] + GENERATOR[2][2] + GENERATOR[3][2]
                 + GENERATOR[4][2] + GENERATOR[5][2]) * raw, 1)

\* one turn of the loop of lines 1334-1336
PlaceMonster ==
    /\ pc = "monsters"
    /\ LET at == find_random_clear(glayers, rng)
           r1 == LcgNext(at.rng)
       IN  IF loc.call.i < 15
           THEN /\ glayers' = [glayers EXCEPT
                                 !["Monster"] = CellAppend(@, at.pos, MonsterRandom(r1))]
                /\ rng' = r1
                /\ loc' = [loc EXCEPT !.call.i = loc.call.i + 1]
                /\ pc' = "monsters"
           ELSE /\ pc' = "items"
                /\ loc' = [loc EXCEPT !.call.i = 0]
                /\ UNCHANGED <<glayers, rng>>
    /\ UNCHANGED <<corridors, rooms, _map, tcod, restarted>>
    /\ UNCHANGED <<mapvars, oravars, runvars>>

\* one turn of the loop of lines 1339-1341, and after the last _gen_add_evidence
PlaceItem ==
    /\ pc = "items"
    /\ LET at == find_random_clear(glayers, rng)
           r1 == LcgNext(at.rng)
           ev == find_random_clear(glayers, LcgNext(rng))
       IN  IF loc.call.i < 8
           THEN /\ glayers' = [glayers EXCEPT !["Item"] = CellAppend(@, at.pos, "Item")]
                /\ rng' = r1
                /\ loc' = [loc EXCEPT !.call.i = loc.call.i + 1]
                /\ pc' = "items"
           ELSE \* no tile class can hide the evidence: it lies in the open
                /\ glayers' = [glayers EXCEPT !["Item"] = CellAppend(@, ev.pos, "Evidence")]
                /\ rng' = ev.rng
                /\ pc' = "keys"
                /\ UNCHANGED loc
    /\ UNCHANGED <<corridors, rooms, _map, tcod, restarted>>
    /\ UNCHANGED <<mapvars, oravars, runvars>>

(* ---- the cost grid and paths: recalculate_paths, get_path ---- *)

\* the cells left walkable when the tiles are asked as for mapping
recalculate_paths_mapping(ls, is_for_mapping) ==
    {c \in DOMAIN ls["Tile"] :
        Len(ls["Tile"][c]) > 0
        /\ ~TileBlocks(ls["Tile"][c][Len(ls["Tile"][c])], TRUE)}
\* Map.recalculate_paths(is_for_mapping): the cells left walkable.  Every
\* tile of a cell sets the cell's flag, so the last tile of the cell decides.
recalculate_paths(ls, is_for_mapping) ==
    {c \in DOMAIN ls["Tile"] :
        Len(ls["Tile"][c]) > 0
        /\ ~TileBlocks(ls["Tile"][c][Len(ls["Tile"][c])], is_for_mapping)}

Neighbours8 == ((-1..1) \X (-1..1)) \ {<<0, 0>>}

\* one more step outwards from the cells reached last
FloodStep(st, walkable) ==
    LET nxt == ({PAdd(c, d) : c \in st.frontier, d \in Neighbours8} \cap walkable) \ st.seen
    IN  [seen |-> st.seen \cup nxt, frontier |-> nxt]

RECURSIVE Flood(_, _, _)
\* up to k steps outwards, ended early when no new cell is reached
Flood(st, walkable, k) ==
    IF st.frontier = {} THEN st
    ELSE IF k = 1 THEN FloodStep(st, walkable)
    ELSE LET half == Flood(st, walkable, k \div 2)
         IN  IF half.frontier = {} THEN half
             ELSE Flood(half, walkable, k - (k \div 2))

\* len(get_path(from_pos, to_pos)) > 0: a walk over walkable cells, diagonal
\* steps included, leads from from_pos to another cell to_pos
HasPath(walkable, from_pos, to_pos) ==
    /\ from_pos # to_pos
    /\ to_pos \in Flood([seen |-> {from_pos}, frontier |-> {from_pos}],
                        walkable, SizeX * SizeY).seen

(* ---- stairs and player: _gen_add_key_elements, _gen_finish ---- *)

\* lines 433-436
KeyElements ==
    /\ pc = "keys"
    /\ LET up   == find_random_clear(glayers, rng)
           down == find_random_clear(glayers, up.rng)
       IN  /\ loc' = [loc EXCEPT !.call = [up_pos |-> up.pos, down_pos |-> down.pos,
                                           sanity |-> 0]]
           /\ rng' = down.rng
    /\ tcod' = recalculate_paths(glayers, TRUE)
    /\ pc' = "keyloop"
    /\ UNCHANGED <<corridors, rooms, _map, glayers, restarted>>
    /\ UNCHANGED <<mapvars, oravars, runvars>>

\* one test of the loop of lines 437-439; when it ends, lines 442-447
KeyLoop ==
    /\ pc = "keyloop"
    /\ LET up   == find_random_clear(glayers, rng)
           down == find_random_clear(glayers, up.rng)
           f    == loc.call
       IN  IF ~HasPath(tcod, f.up_pos, f.down_pos)
           THEN /\ loc' = [loc EXCEPT !.call.up_pos = up.pos, !.call.down_pos = down.pos]
                /\ rng' = down.rng
                /\ pc' = "keyloop"
                /\ UNCHANGED glayers
           ELSE /\ glayers' =
                     [glayers EXCEPT
                        !["Tile"] = CellAppend(CellAppend(@, f.down_pos, "StairsDown"),
                                               f.up_pos, "StairsUp"),
                        !["Player"] = CellAppend(@, f.up_pos, "Player")]
                /\ pc' = "finish"
                /\ UNCHANGED <<loc, rng>>
    /\ UNCHANGED <<corridors, rooms, _map, tcod, restarted>>
    /\ UNCHANGED <<mapvars, oravars, runvars>>

\* _gen_finish: the cost grid of the finished level
Finish ==
    /\ pc = "finish"
    /\ tcod' = recalculate_paths(glayers, FALSE)
    /\ pc' = "done"
    /\ UNCHANGED <<rng, loc, corridors, rooms, _map, glayers, restarted>>
    /\ UNCHANGED <<mapvars, oravars, runvars>>

GenNext ==
    \/ GenerateStart
    \/ TargetRetry
    \/ MainBend
    \/ MinorCorridor
    \/ WriggleStep
    \/ GateReject
    \/ GateCommit
    \/ RoomStart
    \/ RoomGrow
    \/ PatternsStart
    \/ PlaceStep
    \/ Translate
    \/ PlaceMonster
    \/ PlaceItem
    \/ KeyElements
    \/ KeyLoop
    \/ Finish

vars == <<mapvars, genvars, oravars, runvars>>

Init == MapInit /\ scn \in Scenarios /\ GenIdle
Next == MapNext
Spec == Init /\ [][Next]_vars

\* the level in play: the cast "watch" on the generated terrain
WatchInit == MapInit /\ scn = Watch /\ GenIdle
\* the cells whose terrain changes in play: the window's and the door's
ChangingCells == { <<76, 44>>, <<77, 44>> }
\* generate() places the cast one after the other, the player last
PlaceOrder == <<"dk", "cam", "pl">>
Place ==
    \E i \in DOMAIN PlaceOrder :
        /\ \A j \in 1..(i - 1) : omap[PlaceOrder[j]]
        /\ \E p \in AddPos(scn, PlaceOrder[i]) : Add(PlaceOrder[i], p)
\* the game loop runs once generate() has returned
Playing == built = Len(BuildList) /\ \A i \in DOMAIN PlaceOrder : omap[PlaceOrder[i]]
WatchNext ==
    \/ GenAdd
    \/ Place
    \/ Playing /\ \E o \in Movers(scn) : \E p \in MoveTargets(scn) : Move(o, p)
    \/ Playing /\ \E t \in Doors : DoorTurn(t)
    \/ Playing /\ Smash("wn")
    \/ Playing /\ \E p \in ChangingCells : MarkDirty(p)
    \/ Playing /\ RecalculateDirty
    \/ Playing /\ \E reset \in BOOLEAN : PrepareFov(reset)
    \/ Playing /\ \E steps \in StepsAsked : GetPath("dk", steps)
    \/ Playing /\ FindNearest("cam")
    \/ Playing /\ \E radius \in Radii : FindAllWithinR("cam", radius)
WatchSpec == WatchInit /\ [][WatchNext]_vars

\* the level in play, the field of view alone: the player's moves, the door's
\* turns, the window smashed and the field of view computed
SightNext ==
    \/ GenAdd
    \/ Place
    \/ Playing /\ \E o \in Movers(scn) : \E p \in MoveTargets(scn) : Move(o, p)
    \/ Playing /\ \E t \in Doors : DoorTurn(t)
    \/ Playing /\ Smash("wn")
    \/ Playing /\ \E reset \in BOOLEAN : PrepareFov(reset)
SightSpec == WatchInit /\ [][SightNext]_vars

\* one generate() call on a fresh TypeAMap
MapIdle == MapInit /\ scn = "solo"
GenStart == GenInit /\ MapIdle
GenSpec == GenStart /\ [][GenNext]_vars

\* generate() calls from seeds whose corridors and rooms run along the edge
\* of the grid
EdgeSeeds == {0, 6, 32124}
EdgeStart == Seeded(EdgeSeeds) /\ MapIdle
EdgeSpec == EdgeStart /\ [][GenNext]_vars

\* a second run from the seed of the first, on a fresh TypeAMap: Map.random
\* and map.generate(), as src/DalekRL.py lines 120-121 start a level again
Again ==
    /\ pc = "done"
    /\ history.run = 1
    /\ history' = [history EXCEPT !.run = 2, !.tiles = glayers["Tile"],
                                  !.rejected = restarted]
    /\ rng' = history.seed /\ pc' = "start" /\ loc' = NoLocals
    /\ corridors' = <<>> /\ rooms' = <<>> /\ _map' = <<>>
    /\ glayers' = EmptyLayers /\ tcod' = {} /\ restarted' = FALSE
    /\ UNCHANGED <<mapvars, oravars, turnvars, doorvars, tanglevars>>
RerunNext == GenNext \/ Again
RerunSpec == GenStart /\ [][RerunNext]_vars

\* generate() has not returned and has not raised
Running == pc \notin {"idle", "done", "failed"}

\* generate() goes over to another of its phases
PhaseEnds == Running /\ pc' \in Phases

\* generate() runs in the one thread of the game and is never suspended; its
\* corridor, room and placing loops are cut off by a sanity counter or run
\* over a finite range, and the stairs loop (lines 437-439) is taken to find
\* its pair: a running call does not stay in one phase for ever
FairGenSpec == GenSpec /\ WF_pc(PhaseEnds)

\* the loop of line 1198 is at its test and the room of the last pass was
\* turned down by _gen_room (lines 939-947)
RoomRejected ==
    /\ pc = "rooms"
    /\ "bounds" \in DOMAIN loc.call
    /\ _gen_room_result(loc.call, 0) = <<>>

\* stream positions at the test of line 1198 from which the next room is
\* turned down in the level of stream 32124
CarveSeeds == {275}

\* the loop of lines 1198-1204 keeps no count of its passes and hands nothing
\* on from a room that was turned down; what the generator yields for the
\* next pass is outside the program: the pass starts at any position of
\* CarveSeeds
Redrawn ==
    /\ RoomRejected
    /\ rng' \in CarveSeeds
    /\ UNCHANGED <<pc, loc, corridors, rooms, _map, glayers, tcod, restarted>>
    /\ UNCHANGED <<mapvars, oravars, runvars>>

CarveNext == GenNext \/ Redrawn
CarveSpec == EdgeStart /\ [][CarveNext]_vars /\ WF_pc(PhaseEnds)

(***************************************************************************)
(* PART 3 - calls of the functions that read no state                      *)
(***************************************************************************)

\* no Map is in play and no generate() call is running
PureInit == MapIdle /\ GenIdle

\* the coordinates the positions compared are drawn from: 0..MaxCoord
MaxCoord == 3
Coords == (0..MaxCoord) \X (0..MaxCoord)

\* a > b, b > a, b > c, a > c and a == b for three positions
Compare(a, b, c) ==
    /\ ret' = [op   |-> "__gt__",
               args |-> <<a, b, c>>,
               val  |-> [ab |-> Position_gt(a, b), ba |-> Position_gt(b, a),
                         bc |-> Position_gt(b, c), ac |-> Position_gt(a, c),
                         eq |-> Position_eq(a, b)]]
    /\ UNCHANGED <<mapvars, genvars, runvars>>
    /\ UNCHANGED <<tcod_map, _dirty_pos, is_visible, visible_to_player>>

\* a run makes one call
PosNext ==
    ret = NoRet /\ \E a \in Coords : \E b \in Coords : \E c \in Coords : Compare(a, b, c)
PosSpec == PureInit /\ [][PosNext]_vars

\* the templates MapPattern is built from: the patterns of the tile classes
\* and every template of walls and room floor
ClassTemplates == {TilePatterns[p[1]][p[2]] : p \in PatternObjects}
Templates == ClassTemplates \cup [1..3 -> [1..3 -> {"#", "r"}]]

\* MapPattern(*rows): the masks it keeps
NewPattern(rows) ==
    /\ ret' = [op |-> "MapPattern", args |-> <<rows>>, val |-> MapPattern(rows)]
    /\ UNCHANGED <<mapvars, genvars, runvars>>
    /\ UNCHANGED <<tcod_map, _dirty_pos, is_visible, visible_to_player>>

\* the grids apply_to is called on: as wide as a template, GridH high, a cell
\* empty or room floor
GridH == 3
Grids == [0..2 -> [0..(GridH - 1) -> {EMPTY, ROOM}]]

\* MapPattern(*rows).apply_to(grid) for a pattern of a tile class
ApplyTo(rows, grid) ==
    /\ ret' = [op   |-> "apply_to",
               args |-> <<rows, grid>>,
               val  |-> apply_to(grid, MapPattern(rows), 0, GridH - 3)]
    /\ UNCHANGED <<mapvars, genvars, runvars>>
    /\ UNCHANGED <<tcod_map, _dirty_pos, is_visible, visible_to_player>>

\* a run makes one call
PatNext ==
    \/ ret = NoRet /\ \E rows \in Templates : NewPattern(rows)
    \/ ret = NoRet /\ \E rows \in ClassTemplates : \E grid \in Grids : ApplyTo(rows, grid)
PatSpec == PureInit /\ [][PatNext]_vars

(***************************************************************************)
(* PART 4 - the registry of turn-takers                                    *)
(***************************************************************************)

\* Door.__init__: TurnTaker.__init__(self,5); Monster.__init__:
\* TurnTaker.__init__(self,10)
initiative(o) == IF ObjClass[o] = "Door" THEN 5 ELSE 10

\* the key of the sort of line 144: x() is None and 100000 or x().initiative
DeadKey == 100000
SortKey(x, lv) == IF lv[x] # "live" THEN DeadKey ELSE initiative(x)

\* list.sort(key): stable, the equal keys keep their order
SortInsert(s, x, lv) ==
    LET n == Cardinality({i \in 1..Len(s) : SortKey(s[i], lv) <= SortKey(x, lv)})
    IN  SubSeq(s, 1, n) \o <<x>> \o SubSeq(s, n + 1, Len(s))
RECURSIVE ListSort(_, _)
ListSort(s, lv) ==
    IF s = <<>> THEN <<>>
    ELSE SortInsert(ListSort(SubSeq(s, 1, Len(s) - 1), lv), s[Len(s)], lv)

\* list.remove(x): the first element equal to x goes
ListRemove(s, x) ==
    LET at == {i \in 1..Len(s) : s[i] = x}
        k == CHOOSE i \in at : \A j \in at : i <= j
    IN  IF at = {} THEN s ELSE SubSeq(s, 1, k - 1) \o SubSeq(s, k + 1, Len(s))

\* the list after add_turntaker(t), appended and left as it was appended
add_turntaker_unsorted(tt, lv, t) == Append(tt, t)
\* TurnTaker.add_turntaker(t): append the reference, sort the list
add_turntaker(tt, lv, t) == ListSort(Append(tt, t), lv)

\* TurnTaker.clear_turntaker(t, count=1)
clear_turntaker(tt, t) == ListRemove(tt, t)

\* TurnTaker.refresh_turntaker
refresh_turntaker(tt, lv, t) ==
    IF \E i \in 1..Len(tt) : tt[i] = t THEN tt ELSE add_turntaker(tt, lv, t)

\* What the program does to the registry, inside a take_turn or between two
\* rounds: nothing, an object constructed, refreshed or cleared, or the last
\* reference to an object dropped (the object is collected, its weak
\* reference stays in the list)
Effects == {<<"none", "dr">>} \cup ({"init", "refresh", "clear", "drop"} \X TurnTakers)
\* the effect can happen: cur is the object whose take_turn is running
\* (take_all_turns holds it in t), NoObj between rounds
Possible(e, lv, cur) ==
    CASE e[1] = "none" -> TRUE
      [] e[1] = "init" -> lv[e[2]] = "none"
      [] e[1] = "drop" -> lv[e[2]] = "live" /\ e[2] # cur
      [] OTHER -> lv[e[2]] = "live"
AliveAfter(e, lv) ==
    CASE e[1] = "init" -> [lv EXCEPT ![e[2]] = "live"]
      [] e[1] = "drop" -> [lv EXCEPT ![e[2]] = "dead"]
      [] OTHER -> lv
ListAfter(e, tt, lv) ==
    CASE e[1] = "init" -> add_turntaker(tt, AliveAfter(e, lv), e[2])
      [] e[1] = "refresh" -> refresh_turntaker(tt, lv, e[2])
      [] e[1] = "clear" -> clear_turntaker(tt, e[2])
      [] OTHER -> tt
RegisteredAfter(e, reg) == IF e[1] = "init" THEN Append(reg, e[2]) ELSE reg

\* the program constructs, refreshes, clears or drops a turn-taker between
\* two rounds
Between(e) ==
    /\ ~round.on
    /\ e[1] # "none"
    /\ Possible(e, alive, NoObj)
    /\ alive' = AliveAfter(e, alive)
    /\ turn_takers' = ListAfter(e, turn_takers, alive)
    /\ registered' = RegisteredAfter(e, registered)
    /\ UNCHANGED round
    /\ UNCHANGED <<mapvars, genvars, oravars, history, doorvars, tanglevars>>

\* TurnTaker.take_all_turns is called: the for statement takes its iterator
RoundStart ==
    /\ ~round.on
    /\ round' = [on |-> TRUE, i |-> 1,
                 start |-> {o \in TurnTakers : alive[o] = "live"
                                               /\ \E i \in 1..Len(turn_takers) : turn_takers[i] = o},
                 called |-> <<>>]
    /\ UNCHANGED <<turn_takers, alive, registered>>
    /\ UNCHANGED <<mapvars, genvars, oravars, history, doorvars, tanglevars>>

\* one pass of the loop of lines 121-126: the iterator gives the reference at
\* its place and moves on; a dead reference is removed from the list, a live
\* one has take_turn called, which does e
RoundStep(e) ==
    /\ round.on
    /\ round.i <= Len(turn_takers)
    /\ LET tref == turn_takers[round.i]
       IN  IF alive[tref] # "live"
           THEN /\ e[1] = "none"
                /\ turn_takers' = ListRemove(turn_takers, tref)
                /\ round' = [round EXCEPT !.i = @ + 1]
                /\ UNCHANGED <<alive, registered>>
           ELSE /\ Possible(e, alive, tref)
                /\ alive' = AliveAfter(e, alive)
                /\ turn_takers' = ListAfter(e, turn_takers, alive)
                /\ registered' = RegisteredAfter(e, registered)
                /\ round' = [round EXCEPT !.i = @ + 1, !.called = Append(@, tref)]
    /\ UNCHANGED <<mapvars, genvars, oravars, history, doorvars, tanglevars>>

\* the iterator is past the end of the list: take_all_turns returns
RoundEnd ==
    /\ round.on
    /\ round.i > Len(turn_takers)
    /\ round' = [round EXCEPT !.on = FALSE]
    /\ UNCHANGED <<turn_takers, alive, registered>>
    /\ UNCHANGED <<mapvars, genvars, oravars, history, doorvars, tanglevars>>

TurnNext ==
    \/ \E e \in Effects : Between(e)
    \/ RoundStart
    \/ \E e \in Effects : RoundStep(e)
    \/ RoundEnd
TurnSpec == PureInit /\ [][TurnNext]_vars

(***************************************************************************)
(* PART 5 - the methods of a Door, called in any order                     *)
(***************************************************************************)

\* the door fields after Door.take_turn
take_turn(c) ==
    LET inc == [c EXCEPT !.count = CountUpInc(c)]
    IN  IF c.state = "CLOSED"
        THEN (IF c.trying THEN [c EXCEPT !.trying = FALSE] ELSE [c EXCEPT !.count = 0])
        ELSE IF inc.count = inc.count_to
        THEN DoorChange(inc, IF c.state = "OPEN" THEN "CLOSING" ELSE "CLOSED")
        ELSE inc

\* the calls a door is followed for
MaxCalls == 8

\* Door.try_movement(obj), called on the door t of the level in play
TryMovement(t, obj) ==
    /\ built = Len(BuildList)
    /\ omap[t] /\ omap[obj]
    /\ doorlog[t].n < MaxCalls
    /\ LET res == try_movement(t, obj, door)
           st  == door[t].state
       IN  /\ door' = res[2]
           /\ AfterDoors(res[2])
           /\ ret' = [op |-> "try_movement", args |-> <<t, obj>>, val |-> res[1]]
           /\ doorlog' = [doorlog EXCEPT ![t] =
                  [op    |-> "try_movement",
                   tried |-> TRUE,
                   n     |-> IF res[2][t].state # st THEN 0
                             ELSE IF st = "CLOSED" THEN doorlog[t].n + 1
                             ELSE IF st = "CLOSING" THEN 0
                             ELSE doorlog[t].n]]
    /\ last' = Call("try_movement", t, opos[t], "ok", 1, 0)
    /\ UNCHANGED <<layers, opos, olast, omap, owner, built, scn, _dirty_pos, is_visible>>
    /\ UNCHANGED <<genvars, history, turnvars, tanglevars>>

\* Door.take_turn(), called on the door t of the level in play
TakeTurn(t) ==
    /\ built = Len(BuildList)
    /\ omap[t]
    /\ doorlog[t].n < MaxCalls
    /\ LET c1 == take_turn(door[t])
           d1 == [door EXCEPT ![t] = c1]
           st == door[t].state
       IN  /\ door' = d1
           /\ AfterDoors(d1)
           /\ doorlog' = [doorlog EXCEPT ![t] =
                  [op    |-> "take_turn",
                   tried |-> FALSE,
                   n     |-> IF c1.state # st THEN 0
                             ELSE IF st = "CLOSED"
                             THEN (IF doorlog[t].tried THEN doorlog[t].n ELSE 0)
                             ELSE doorlog[t].n + 1]]
    /\ last' = Call("take_turn", t, opos[t], "ok", 0, 0)
    /\ ret' = NoRet
    /\ UNCHANGED <<layers, opos, olast, omap, owner, built, scn, _dirty_pos, is_visible>>
    /\ UNCHANGED <<genvars, history, turnvars, tanglevars>>

DoorNext ==
    \/ GenAdd
    \/ Place
    \/ Playing /\ \E t \in Doors : \E o \in {"pl", "dk"} : TryMovement(t, o)
    \/ Playing /\ \E t \in Doors : TakeTurn(t)
    \/ Playing /\ Smash("wn")
    \/ Playing /\ \E reset \in BOOLEAN : PrepareFov(reset)
DoorSpec == WatchInit /\ [][DoorNext]_vars

\* take_turn is a call the game makes every turn for as long as it runs
FairDoorSpec == DoorSpec /\ WF_vars(\E t \in Doors : TakeTurn(t))

(***************************************************************************)
(* PART 6 - monsters that tangle                                           *)
(***************************************************************************)

\* Dalek: Tanglable.__init__(self,5), CrateLifter: Tanglable.__init__(self,7)
tangle_turns(m) == IF m = "k1" THEN 7 ELSE 5

\* Tangle.add(monster) on the fields S of the monsters, the Tangles and the
\* layer
TangleAdd(S, T, m) ==
    IF \E i \in 1..Len(S.t[T].dogpile) : S.t[T].dogpile[i] = m THEN S
    ELSE LET placed == S.t[T].pos # NoPos
             at     == S.m[m].pos
         IN  [m |-> [S.m EXCEPT ![m].tangled_with = T, ![m].is_visible = FALSE],
              t |-> [S.t EXCEPT ![T].pos = IF placed THEN @ ELSE at,
                                ![T].map = IF placed THEN @ ELSE TRUE,
                                ![T].dogpile = Append(@, m),
                                ![T].tangle_counter = @ + tangle_turns(m)],
              l |-> IF placed THEN S.l ELSE [S.l EXCEPT ![at] = Append(@, T)]]

\* Tangle(): an object that is not on the map and that nothing refers to
Fresh(S) == IF ~S.t["T1"].map THEN "T1" ELSE "T2"
NewTangle(S) == [S EXCEPT !.t[Fresh(S)] = NoTangle]

\* a tangle that gives every pair of monsters a Tangle of their own
tangle_anew(S, self, other) ==
    IF other \in Tangles THEN TangleAdd(S, other, self)
    ELSE LET t == Fresh(S)
         IN  TangleAdd(TangleAdd(NewTangle(S), t, self), t, other)
\* Tanglable.tangle(self, other)
tangle(S, self, other) ==
    IF other \in Tangles THEN TangleAdd(S, other, self)
    ELSE LET t == IF S.m[other].tangled_with = NoObj THEN Fresh(S)
                  ELSE S.m[other].tangled_with
             S1 == IF S.m[other].tangled_with = NoObj THEN NewTangle(S) ELSE S
         IN  TangleAdd(TangleAdd(S1, t, self), t, other)

\* Map.move(obj, pos) on the Monster layer: the reference leaves its list
\* and is appended to the list at pos
Moved(S, m, p) ==
    LET out == [S.l EXCEPT ![S.m[m].pos] = SelectSeq(@, LAMBDA o : o # m)]
    IN  [S EXCEPT !.l = [out EXCEPT ![p] = Append(@, m)], !.m[m].pos = p]

\* the fields as they are
Here == [m |-> monsters, t |-> tangles, l |-> monster_layer]
\* a Tangle can be constructed: an object of the model is free
CanTangle == \E T \in Tangles : ~tangles[T].map
\* the fields become S; a Tangle a monster was added to has its history set
Becomes(S) ==
    /\ monsters' = S.m /\ tangles' = S.t /\ monster_layer' = S.l
    /\ tanglelog' = [T \in Tangles |->
                        IF S.t[T].dogpile # tangles[T].dogpile \/ (S.t[T].map /\ ~tangles[T].map)
                        THEN [n |-> S.t[T].tangle_counter, calls |-> 0]
                        ELSE tanglelog[T]]

\* a step towards p or none: MS_Confused.get_move, get_path(...)[0]
Near(a, p) == Abs(a[1] - p[1]) <= 1 /\ Abs(a[2] - p[2]) <= 1

\* Dalek.take_turn with new_pos = p (lines 321-361): the monsters at p are
\* found, the Dalek moves and tangles with the first Tanglable found
DalekTurn(m, p) ==
    /\ m \in {"d1", "d2"}
    /\ Near(monsters[m].pos, p)
    /\ CanTangle
    /\ IF ~monsters[m].is_visible THEN UNCHANGED tanglevars
       ELSE LET ms == monster_layer[p]
                S1 == Moved(Here, m, p)
            IN  Becomes(IF ms = <<>> THEN S1 ELSE tangle(S1, m, ms[1]))
    /\ UNCHANGED <<mapvars, genvars, oravars, history, turnvars, doorvars>>

\* Map.find_nearest(self, Monster) when a drawn monster shares the cell:
\* the first one of the cell's list
Sharing(S, m) ==
    SelectSeq(S.l[S.m[m].pos],
              LAMBDA o : o # m /\ (o \in Tangles \/ S.m[o].is_visible))

\* CrateLifter.take_turn with a move to p (lines 163-262): it moves, and
\* tangles with the nearest drawn monster if that one is on its cell
LifterTurn(m, p) ==
    /\ m = "k1"
    /\ Near(monsters[m].pos, p)
    /\ CanTangle
    /\ IF ~monsters[m].is_visible THEN UNCHANGED tanglevars
       ELSE LET S1 == Moved(Here, m, p)
                sh == Sharing(S1, m)
            IN  Becomes(IF sh = <<>> THEN S1 ELSE tangle(S1, m, sh[1]))
    /\ UNCHANGED <<mapvars, genvars, oravars, history, turnvars, doorvars>>

\* the fields after a Tangle.take_turn that counts down by two
tangle_take_turn_by_two(S, T) ==
    IF S.t[T].tangle_counter = 0 \/ S.t[T].dogpile = <<>> THEN S
    ELSE IF S.t[T].tangle_counter > 2
    THEN [S EXCEPT !.t[T].tangle_counter = @ - 2]
    ELSE [m |-> [o \in Tanglers |->
                   IF \E i \in 1..Len(S.t[T].dogpile) : S.t[T].dogpile[i] = o
                   THEN [S.m[o] EXCEPT !.tangled_with = NoObj, !.is_visible = TRUE]
                   ELSE S.m[o]],
          t |-> [S.t EXCEPT ![T] = NoTangle],
          l |-> [S.l EXCEPT ![S.t[T].pos] = SelectSeq(@, LAMBDA o : o # T)]]
\* the fields after Tangle.take_turn; the Tangle it takes off the map is
\* referred to by nothing and is dropped
tangle_take_turn(S, T) ==
    IF S.t[T].tangle_counter = 0 \/ S.t[T].dogpile = <<>> THEN S
    ELSE IF S.t[T].tangle_counter > 1
    THEN [S EXCEPT !.t[T].tangle_counter = @ - 1]
    ELSE [m |-> [o \in Tanglers |->
                   IF \E i \in 1..Len(S.t[T].dogpile) : S.t[T].dogpile[i] = o
                   THEN [S.m[o] EXCEPT !.tangled_with = NoObj, !.is_visible = TRUE]
                   ELSE S.m[o]],
          t |-> [S.t EXCEPT ![T] = NoTangle],
          l |-> [S.l EXCEPT ![S.t[T].pos] = SelectSeq(@, LAMBDA o : o # T)]]

\* Tangle.take_turn, called by the game on a Tangle of the Monster layer
TangleTurn(T) ==
    /\ tangles[T].map
    /\ LET S == tangle_take_turn(Here, T)
       IN  /\ monsters' = S.m /\ tangles' = S.t /\ monster_layer' = S.l
    /\ tanglelog' = [tanglelog EXCEPT ![T].calls = @ + 1]
    /\ UNCHANGED <<mapvars, genvars, oravars, history, turnvars, doorvars>>

TangleNext ==
    \/ \E m \in Tanglers : \E p \in Cells : DalekTurn(m, p)
    \/ \E m \in Tanglers : \E p \in Cells : LifterTurn(m, p)
    \/ \E T \in Tangles : TangleTurn(T)
TangleSpec == PureInit /\ [][TangleNext]_vars

(***************************************************************************)
(* PROPERTIES of the occupancy index                                       *)
(***************************************************************************)

\* 0 <= pos.x < size.x and 0 <= pos.y < size.y
InGrid(p) == p[1] >= 0 /\ p[1] < SizeX /\ p[2] >= 0 /\ p[2] < SizeY

\* the terrain objects of a cell
TilesAt(p) == IF p \in DOMAIN layers["Tile"] THEN layers["Tile"][p] ELSE <<>>

\* the cell list of layer l at p, empty when p is no key of the layer
CellList(ls, l, p) == IF p \in DOMAIN ls[l] THEN ls[l][p] ELSE <<>>

\* some terrain object at the cell of o refuses to let o leave
SourceVeto(o) ==
    \E i \in 1..Len(TilesAt(opos[o])) : ~try_leaving(TilesAt(opos[o])[i], o, owner)

\* some terrain object at p answers False to try_movement(o)
DestVeto(o, p) ==
    ~AskDests(TilesAt(p), o, [r |-> 0, d |-> door, calls |-> 0, allok |-> TRUE]).allok

\* the step is a call Map.move(obj, pos) on an object that is on the map
IsMoveStep == last'.op = "move" /\ omap[last'.obj]

\* C1: no layer's cell mapping ever holds a position whose object list is
\* empty (Map.remove deletes the emptied cell; Map.move is claimed to).
C1_NoEmptyCell ==
    \A l \in Layers : \A p \in DOMAIN layers[l] : Len(layers[l][p]) > 0

\* C2: a move onto a cell holding a terrain object of walk cost 0 raises
\* InvalidMoveError and changes neither pos, last_pos nor any layer.
C2_MoveOntoWallFails ==
    [][ (IsMoveStep /\ \E i \in 1..Len(TilesAt(last'.pos)) :
                          walk_cost(TilesAt(last'.pos)[i], door) = 0)
        => (last'.outcome = "InvalidMoveError" /\ UNCHANGED <<layers, opos, olast>>) ]_vars

\* C3: a move to any position outside the grid (x < 0, y < 0, x >= size.x
\* or y >= size.y) raises InvalidMoveError and changes nothing.
C3_MoveOutsideGridFails ==
    [][ (IsMoveStep /\ ~InGrid(last'.pos))
        => (last'.outcome = "InvalidMoveError" /\ UNCHANGED <<layers, opos, olast>>) ]_vars

\* C4: every object in a cell list is stored under its own pos, has its
\* map set, and its pos lies inside the grid.
C4_IndexConsistent ==
    \A l \in Layers : \A p \in DOMAIN layers[l] : \A i \in 1..Len(layers[l][p]) :
        LET o == layers[l][p][i]
        IN  opos[o] = p /\ omap[o] /\ InGrid(p)

\* C9: when a terrain object at the object's cell refuses try_leaving, the
\* move raises InvalidMoveError, pos, last_pos and the layers are unchanged
\* and no destination tile has been asked (no try_movement call, so no door
\* has changed).
C9_SourceVetoStopsMove ==
    [][ (IsMoveStep /\ SourceVeto(last'.obj))
        => (/\ last'.outcome = "InvalidMoveError"
            /\ last'.calls = 0
            /\ UNCHANGED <<layers, opos, olast, door>>) ]_vars

\* C9 witness: the player hides under the table and is refused a move to
\* the door's cell, inside the grid
C9_Witness ==
    /\ last.op = "move" /\ last.outcome = "InvalidMoveError"
    /\ last.pos = <<77, 44>>
    /\ omap[last.obj] /\ owner["tb"] = last.obj /\ opos[last.obj] = opos["tb"]
    /\ Len(TilesAt(last.pos)) = 2

\* what Map.move lines 97-111 do to the index when the move goes ahead
MoveRelocates ==
    LET o   == last'.obj
        p   == last'.pos
        L   == LayerOf(last'.obj)
        src == opos[last'.obj]
    IN  /\ last'.outcome = "ok"
        /\ opos' = [opos EXCEPT ![o] = p]
        /\ olast' = [olast EXCEPT ![o] = src]
        /\ omap' = omap
        /\ \A l \in Layers \ {L} : layers'[l] = layers[l]
        /\ DOMAIN layers'[L] = DOMAIN layers[L] \cup {p}
        /\ \A q \in DOMAIN layers[L] \ {src, p} : layers'[L][q] = layers[L][q]
        /\ layers'[L][p] = Append(SeqRemove(CellList(layers, L, p), o), o)
        /\ (src # p => layers'[L][src] = SeqRemove(layers[L][src], o))

\* C10 as stated: inside the grid and with no terrain veto the move
\* succeeds, relocates obj to the end of the destination list, records
\* last_pos and pos, and every other object (the terrain objects' own
\* fields included) and every other layer is unchanged.
C10_MoveFrameAllObjects ==
    [][ (IsMoveStep /\ InGrid(last'.pos) /\ ~SourceVeto(last'.obj)
                    /\ ~DestVeto(last'.obj, last'.pos))
        => (MoveRelocates /\ UNCHANGED <<door, owner>>) ]_vars

\* C10 amended: the same, the unchanged part being the index itself: every
\* other object's pos, last_pos, map and place in its cell list, and every
\* other layer.  A terrain object asked by try_movement may change its own
\* fields (a closed Door that is pushed for the fourth time opens).
C10_MoveFrameIndex ==
    [][ (IsMoveStep /\ InGrid(last'.pos) /\ ~SourceVeto(last'.obj)
                    /\ ~DestVeto(last'.obj, last'.pos))
        => MoveRelocates ]_vars

\* C10 witness: the Dalek has moved from (77,43) onto the camera's cell and
\* stands last in that cell list, the player's layer being occupied
C10_Witness ==
    /\ last.op = "move" /\ last.outcome = "ok" /\ last.obj = "dk"
    /\ last.pos = <<78, 44>>
    /\ olast["dk"] = <<77, 43>> /\ opos["dk"] = <<78, 44>>
    /\ CellList(layers, "Monster", <<78, 44>>) = <<"cam", "dk">>
    /\ CellList(layers, "Player", <<77, 43>>) = <<"pl">>
    /\ owner["tb"] = NoObj

\* the layer selections of find_all_at_pos: one layer, or all in order
LayerSelections == {<<l>> : l \in Layers} \cup {LayerOrder}

\* the cells some layer holds a list for
KeyCells(ls) == UNION {DOMAIN ls[l] : l \in Layers}

\* C11: from any state of the Map, and for any object O that is not on it,
\* add(O) followed by remove(O) gives back, for every layer selection, the
\* find_all_at_pos result at O's cell (same objects, same order) and leaves
\* the result at every other cell as it was.
C11_AddRemoveRestores ==
    \A o \in Placeable(scn) : \A p \in AddPos(scn, o) :
        ~omap[o] =>
            LET after == MapRemove(MapAdd(layers, o, p), o, p)
            IN  \A q \in KeyCells(layers) \cup {p} : \A sel \in LayerSelections :
                    find_all_at_pos(after, q, sel) = find_all_at_pos(layers, q, sel)

\* C11 witness: the Dalek has been added to the camera's cell and removed
\* again; the camera is alone in the cell list as before
C11_Witness ==
    /\ last.op = "remove" /\ last.outcome = "ok" /\ last.obj = "dk"
    /\ last.pos = <<78, 44>>
    /\ olast["dk"] = <<78, 44>> /\ ~omap["dk"]
    /\ CellList(layers, "Monster", <<78, 44>>) = <<"cam">>

\* the step is a call Map.remove(obj)
IsRemoveStep == last'.op = "remove"

\* obj is in the cell list of its layer at its pos
InOwnCell(ls, o, p) == InSeq(CellList(ls, LayerOf(o), p), o)

\* C12: Map.remove(O) succeeds only if O is in its layer's cell list at
\* O.pos; then O is in no cell list of that layer and O.map and O.pos are
\* cleared.  If O is not there the call fails and no layer, O.map and O.pos
\* are unchanged.
C12_RemoveContract ==
    [][ IsRemoveStep =>
          LET o == last'.obj
          IN  IF InOwnCell(layers, o, opos[o])
              THEN /\ last'.outcome = "ok"
                   /\ \A q \in DOMAIN layers'[LayerOf(o)] : ~InSeq(layers'[LayerOf(o)][q], o)
                   /\ ~omap'[o] /\ opos'[o] = NoPos
              ELSE /\ last'.outcome # "ok"
                   /\ UNCHANGED <<layers, omap, opos>> ]_vars

\* C12 witness: remove(player) has failed on a player that is not on the
\* map, after a successful remove
C12_Witness ==
    /\ last.op = "remove" /\ last.outcome = "AssertionError" /\ last.obj = "pl"
    /\ ~omap["pl"] /\ opos["pl"] = NoPos /\ olast["pl"] # NoPos

(***************************************************************************)
(* PROPERTIES of the traversal oracle and the queries                      *)
(***************************************************************************)

\* the two flags the cost grid keeps for cell c
CellFlags(g, c) == <<c \in g.walkable, c \in g.transparent>>

\* C16: once recalculate_dirty has run after a change of the terrain, the
\* cost grid's walkable and transparent flags at every terrain cell are the
\* flags derived from the terrain objects that are at the cell now.
C16_DirtyRecalculationFollowsTerrain ==
    last.op = "recalculate_dirty" =>
        \A c \in DOMAIN layers["Tile"] :
            CellFlags(tcod_map, c) = CellFlags(recalculate_all(layers, door), c)

\* C17: get_path and prepare_fov apply the positions that wait in _dirty_pos
\* and empty the list before they compute: none waits once the query is done.
C17_QueriesFlushDirty ==
    last.op \in {"get_path", "prepare_fov"} => _dirty_pos = <<>>

\* C18: get_path(from, to, steps) returns the first min(steps, n) cells of a
\* full path from from to to, n being that path's length; the empty list when
\* there is no path.
C18_StepsTruncate ==
    (ret.op = "get_path" /\ ret.args[3] # NoSteps) =>
        \E full \in FullPaths(tcod_map, ret.args[1], ret.args[2]) :
            LET n == IF ret.args[3] < Len(full) THEN ret.args[3] ELSE Len(full)
            IN  ret.val = SubSeq(full, 1, n)

\* the objects a query has returned
Returned ==
    IF ret.op = "find_nearest" THEN {ret.val} \ {NoObj}
    ELSE IF ret.op = "find_all_within_r" THEN ret.val
    ELSE {}

\* C20: find_nearest and find_all_within_r with must_be_visible=True return
\* only objects whose visible_to_player flag is set, and never the object
\* that asks.
C20_OnlyVisibleToPlayer ==
    \A x \in Returned : visible_to_player[x] /\ x # ret.args[1]

\* the object is listed in a cell that is in the field of view from pos
InView(o, pos) == \E c \in CellsOf(layers, o) : InFov(tcod_map, pos, c)

\* C21: after prepare_fov(pos, reset=True) every object of every layer has
\* visible_to_player true exactly when its cell is in the field of view;
\* after prepare_fov(pos, reset=False) the objects in view have it true and
\* no flag has gone from true to false.
C21_FovSetsFlags ==
    [][ret'.op = "prepare_fov" =>
          \A o \in {x \in Objs : CellsOf(layers, x) # {}} :
              IF ret'.args[2]
              THEN visible_to_player'[o] = InView(o, ret'.args[1])
              ELSE /\ InView(o, ret'.args[1]) => visible_to_player'[o]
                   /\ visible_to_player[o] => visible_to_player'[o]]_vars

\* prepare_fov(reset=False) has kept the flag of the Dalek, seen a turn ago
\* and now out of view
C21_Witness ==
    /\ ret.op = "prepare_fov" /\ ~ret.args[2]
    /\ visible_to_player["dk"] /\ ~InView("dk", ret.args[1])
    /\ visible_to_player["cam"] /\ InView("cam", ret.args[1])

(***************************************************************************)
(* PROPERTIES of the functions that read no state                          *)
(***************************************************************************)

\* C22: the comparison of positions is a strict total order: of a > b and
\* b > a at most one holds, exactly one of a > b, b > a and a == b holds, and
\* a > b and b > c give a > c.
C22_StrictTotalOrder ==
    ret.op = "__gt__" =>
        /\ ~(ret.val.ab /\ ret.val.ba)
        /\ (ret.val.ab \/ ret.val.ba) = ~ret.val.eq
        /\ (ret.val.ab /\ ret.val.bc) => ret.val.ac

\* a template turned by a quarter
Turned(rows) == [a \in 1..3 |-> [b \in 1..3 |-> rows[b][4 - a]]]

\* C24: MapPattern stores the distinct rotations of a template, no two
\* stored variants equal cell for cell: one variant for a template with
\* 4-fold symmetry, two for a template with 2-fold symmetry only.
C24_DistinctRotations ==
    ret.op = "MapPattern" =>
        LET rows  == ret.args[1]
            masks == ret.val
        IN  /\ \A i \in 1..Len(masks) : \A j \in 1..Len(masks) :
                   i # j => masks[i] # masks[j]
            /\ Turned(rows) = rows => Len(masks) = 1
            /\ Turned(rows) # rows /\ Turned(Turned(rows)) = rows => Len(masks) = 2

\* a grid cell matches a template cell: they share a flag bit, or the grid
\* cell is 0 and the template cell includes WALL
CellMatches(v, k) == BitAndNonZero(v, k) \/ (v = 0 /\ HasFlag(k, WALL))
\* the variant matches the window of the grid whose top-left cell is w
WindowMatches(grid, mask, w) ==
    \A a \in 0..2 : \A b \in 0..2 :
        CellMatches(grid[w[1] + a][w[2] + b], mask[a + 1][b + 1])
\* the top-left cells of the windows of the grid of the call held in ret
Windows == {0} \X (0..(Cardinality(DOMAIN ret.args[2][0]) - 3))
\* how many stored variants of the template match the window at w
Matching(w) ==
    LET masks == MapPattern(ret.args[1])
    IN  Cardinality({k \in 1..Len(masks) : WindowMatches(ret.args[2], masks[k], w)})
\* how often apply_to has listed p
Times(p) == Cardinality({i \in 1..Len(ret.val) : ret.val[i] = p})

\* C25: apply_to returns the centre cells of the windows some stored variant
\* matches, each once for every stored variant matching there, and nothing
\* else; a cell matches as CellMatches says.
C25_CentresOfMatches ==
    ret.op = "apply_to" =>
        /\ \A w \in Windows : Times(<<w[1] + 1, w[2] + 1>>) = Matching(w)
        /\ \A i \in 1..Len(ret.val) : \E w \in Windows : ret.val[i] = <<w[1] + 1, w[2] + 1>>
\* a call that lists a window, an empty grid cell and a room cell lying
\* under the template
C25_Witness ==
    /\ ret.op = "apply_to"
    /\ \E w \in Windows :
           /\ Matching(w) > 0
           /\ Times(<<w[1] + 1, w[2] + 1>>) > 0
           /\ \E a \in 0..2 : \E b \in 0..2 : ret.args[2][w[1] + a][w[2] + b] = EMPTY
           /\ \E a \in 0..2 : \E b \in 0..2 : ret.args[2][w[1] + a][w[2] + b] = ROOM
\* the statement with the top-left cell of the window as the position
C25_TopLeftOfMatches ==
    ret.op = "apply_to" =>
        {ret.val[i] : i \in 1..Len(ret.val)} = {w \in Windows : Matching(w) > 0}

(***************************************************************************)
(* PROPERTIES of the level generator                                       *)
(***************************************************************************)

\* the stairs generate() has placed: the only StairsUp and StairsDown cells
StairsCells(c) ==
    {p \in DOMAIN glayers["Tile"] :
        \E i \in 1..Len(glayers["Tile"][p]) : glayers["Tile"][p][i] = c}

\* C5: for every level generate() has committed and finished, get_path from
\* the StairsUp cell to the StairsDown cell on the final normal-mode cost
\* grid is non-empty: the way down can be walked to from the way up.
C5_StairsConnected ==
    pc = "done" =>
        \A up \in StairsCells("StairsUp") : \A down \in StairsCells("StairsDown") :
            HasPath(tcod, up, down)

\* the cells of the grid that hold at least one terrain object
TerrainCells == {p \in DOMAIN glayers["Tile"] : glayers["Tile"][p] # <<>>}

\* C13: in every committed TypeAMap level the number of grid cells holding at
\* least one terrain object, divided by size.x * size.y, is at least
\* REJECT_COVERAGE_SQ (0.8): a layout below the threshold is never committed.
C13_CommittedCoverage ==
    pc = "done" =>
        Cardinality(TerrainCells) * 100 >= REJECT_COVERAGE_SQ * SizeX * SizeY

\* how many terrain objects of class c the level holds
RECURSIVE CountIn(_, _)
CountIn(s, c) ==
    IF s = <<>> THEN 0 ELSE (IF Head(s) = c THEN 1 ELSE 0) + CountIn(Tail(s), c)

RECURSIVE CountTiles(_, _)
CountTiles(cells, c) ==
    IF cells = {} THEN 0
    ELSE LET p == CHOOSE q \in cells : TRUE
         IN  CountIn(glayers["Tile"][p], c) + CountTiles(cells \ {p}, c)

\* the terrain of cell p under the stairs: what find_random_clear looked at
Beneath(p) == SelectSeq(glayers["Tile"][p], LAMBDA c : c \notin {"StairsUp", "StairsDown"})

\* the feature objects of cell p: the objects of the classes with patterns
FeaturesAt(p) == SelectSeq(glayers["Tile"][p], LAMBDA c : c \in DOMAIN TilePatterns)

\* C26: after feature population no cell holds more than one feature
\* object, every cell that holds one carries SPECIAL in the scratch grid, and
\* of no feature class T are there more objects than T.place_max.
C26_FeaturesPlaced ==
    pc = "translate" =>
        /\ \A p \in DOMAIN glayers["Tile"] :
               /\ Len(FeaturesAt(p)) <= 1
               /\ Len(FeaturesAt(p)) = 1 => HasFlag(_map[p[1]][p[2]], SPECIAL)
        /\ \A T \in DOMAIN TilePatterns :
               CountTiles(DOMAIN glayers["Tile"], T) <= Placing[T][2]

\* C26 witness: feature population has ended, a class has its objects
\* placed with candidates left over, the number wanted having been reached
C26_Witness ==
    /\ pc = "translate"
    /\ \E T \in DOMAIN TilePatterns :
           /\ CountTiles(DOMAIN glayers["Tile"], T) > 0
           /\ Len(loc.call.Tgat[T]) > 0
    /\ \E p \in DOMAIN glayers["Tile"] :
           Len(FeaturesAt(p)) = 1 /\ HasFlag(_map[p[1]][p[2]], SPECIAL)

\* the cells of the outer ring of the grid
Ring ==
    {c \in (0..(SizeX - 1)) \X (0..(SizeY - 1)) :
        c[1] = 0 \/ c[1] = SizeX - 1 \/ c[2] = 0 \/ c[2] = SizeY - 1}

\* C27: in every committed level every cell of the outer ring holds terrain
\* that blocks movement, is_blocked being true there.
C27_RingBlocks ==
    pc = "done" =>
        \A c \in Ring :
            /\ c \in DOMAIN glayers["Tile"] /\ glayers["Tile"][c] # <<>>
            /\ is_blocked(glayers, c)

\* the terrain objects the step adds at cell c
AddedAt(c) ==
    LET old == IF c \in DOMAIN glayers["Tile"] THEN glayers["Tile"][c] ELSE <<>>
        new == IF c \in DOMAIN glayers'["Tile"] THEN glayers'["Tile"][c] ELSE <<>>
    IN  SubSeq(new, Len(old) + 1, Len(new))
\* the flags of the two neighbours of c along the axis d, none outside the grid
AxisFlags(c, d) ==
    LET a == <<c[1] - d[1], c[2] - d[2]>>
        b == <<c[1] + d[1], c[2] + d[2]>>
    IN  IF a[1] >= 0 /\ a[2] >= 0 /\ b[1] < SizeX /\ b[2] < SizeY
        THEN {_map[a[1]][a[2]], _map[b[1]][b[2]]} ELSE {}
\* both neighbours along the axis are walkable: corridor, room or special
BothWalkable(c, d) ==
    /\ AxisFlags(c, d) # {}
    /\ \A v \in AxisFlags(c, d) : HasFlag(v, CORRIDOR) \/ HasFlag(v, ROOM) \/ HasFlag(v, SPECIAL)
\* both neighbours along the axis are wall, door or empty
BothSolid(c, d) ==
    /\ AxisFlags(c, d) # {}
    /\ \A v \in AxisFlags(c, d) : HasFlag(v, WALL) \/ HasFlag(v, DOOR) \/ v = 0
\* the cells the door-resolution pass decides: DOOR set, SPECIAL not
DoorCells ==
    {c \in (0..(SizeX - 1)) \X (0..(SizeY - 1)) :
        HasFlag(_map[c[1]][c[2]], DOOR) /\ ~HasFlag(_map[c[1]][c[2]], SPECIAL)}
NS == <<0, 1>>
EW == <<1, 0>>

\* C28: the door-resolution pass places a Door at a cell of DoorCells if and
\* only if exactly one axis has both neighbours walkable and the other axis
\* has both neighbours wall, door or empty; otherwise the cell gets a Wall
\* when neither axis has both neighbours walkable and a plain Floor in the
\* remaining cases.
C28_DoorResolution ==
    [][ pc = "translate" =>
          \A c \in DoorCells :
              LET ns == BothWalkable(c, NS)
                  ew == BothWalkable(c, EW)
              IN  IF (ns /\ ~ew /\ BothSolid(c, EW)) \/ (ew /\ ~ns /\ BothSolid(c, NS))
                  THEN AddedAt(c) = <<"Floor", "Door">>
                  ELSE IF ~ns /\ ~ew THEN AddedAt(c) = <<"Wall">>
                  ELSE AddedAt(c) = <<"Floor">> ]_vars

\* the interior cells without a flag in the scratch grid
BlankInterior ==
    {c \in (1..(SizeX - 2)) \X (1..(SizeY - 2)) : _map[c[1]][c[2]] = 0}
\* one of the 8 neighbours of c has a flag
NeighbourFlagged(c) ==
    \E d \in ((-1..1) \X (-1..1)) \ {<<0, 0>>} : _map[c[1] + d[1]][c[2] + d[2]] # 0

\* C29: in the wall-inference step an interior cell whose flags are 0 gets a
\* Wall if and only if one of its 8 neighbours has a flag, and gets no
\* terrain object otherwise.
C29_WallInference ==
    [][ pc = "translate" =>
          \A c \in BlankInterior :
              AddedAt(c) = IF NeighbourFlagged(c) THEN <<"Wall">> ELSE <<>> ]_vars

\* C29 witness: the step has run; a blank interior cell with a flagged
\* neighbour on a diagonal only holds a Wall, another with no flagged
\* neighbour holds nothing
C29_Witness ==
    /\ pc = "monsters"
    /\ \E c \in BlankInterior :
           /\ NeighbourFlagged(c)
           /\ \A d \in {<<0, 1>>, <<0, -1>>, <<1, 0>>, <<-1, 0>>} :
                  _map[c[1] + d[1]][c[2] + d[2]] = 0
           /\ c \in DOMAIN glayers["Tile"] /\ glayers["Tile"][c] = <<"Wall">>
    /\ \E c \in BlankInterior : ~NeighbourFlagged(c) /\ c \notin DOMAIN glayers["Tile"]

\* the cells the commit of element e writes
RectCells(e) ==
    {c \in (0..(SizeX - 1)) \X (0..(SizeY - 1)) :
        /\ CoversAxis(e.pos[1], e.size[1], SizeX, c[1])
        /\ CoversAxis(e.pos[2], e.size[2], SizeY, c[2])}

\* C30: every cell of the rectangle of an accepted room has flag 0 in the
\* scratch grid at the moment the room is committed: the room shares no
\* cell with a room accepted before, with a corridor or with the boundary.
C30_RoomsOnBlankCells ==
    [][ pc = "room" /\ Len(rooms') > Len(rooms) =>
          \A i \in (Len(rooms) + 1)..Len(rooms') :
              rooms'[i].tile_id = ROOM =>
                  \A c \in RectCells(rooms'[i]) : _map[c[1]][c[2]] = 0 ]_vars

\* C15: after generate() commits a level there is exactly one StairsUp and
\* exactly one StairsDown in the terrain layer, at two distinct cells that
\* were not blocked when they were chosen, and the player is in the Player
\* layer at the cell of the StairsUp.
C15_StairsAndPlayer ==
    pc = "done" =>
        LET ups   == StairsCells("StairsUp")
            downs == StairsCells("StairsDown")
        IN  /\ CountTiles(ups, "StairsUp") = 1
            /\ CountTiles(downs, "StairsDown") = 1
            /\ ups \cap downs = {}
            /\ \A p \in ups \cup downs :
                   Beneath(p) # <<>> /\ ~TileBlocks(Beneath(p)[1], FALSE)
            /\ \A p \in ups : DOMAIN glayers["Player"] = {p}
                               /\ glayers["Player"][p] = <<"Player">>

\* C15 witness: a committed level with a StairsUp under the player and a
\* StairsDown elsewhere
C15_Witness ==
    /\ pc = "done"
    /\ \E up \in StairsCells("StairsUp") : \E down \in StairsCells("StairsDown") :
           up # down /\ up \in DOMAIN glayers["Player"]

\* C19: when the cost grid is rebuilt with is_for_mapping set, a terrain cell
\* is marked walkable only if it is walkable in normal mode and its tile is
\* not flagged may_block_movement; in particular a Wall is not walkable in
\* mapping mode.  (The grid _gen_add_key_elements builds is the mapping-mode
\* grid; it is the one in use while the stairs are being chosen.)
C19_MappingModeWalkable ==
    pc = "keyloop" =>
        \A p \in tcod : \A i \in 1..Len(glayers["Tile"][p]) :
            LET c == glayers["Tile"][p][i]
            IN  ~TileBlocks(c, FALSE) /\ ~TileMayBlock(c) /\ c # "Wall"

\* C14: two runs of generate() from the same seed on the same grid, none of
\* whose attempts was rejected, commit the same terrain layer: the same
\* classes at the same cells in the same order within each cell.
C14_SameSeedSameTerrain ==
    (pc = "done" /\ history.run = 2 /\ ~history.rejected /\ ~restarted) =>
        glayers["Tile"] = history.tiles

\* C23: each distinct template content is matched once: two patterns with
\* the same rows are one key of pattern_map, apply_to runs once for them.
C23_IdenticalRowsOneKey ==
    pc = "place" =>
        \A p \in loc.call.keys : \A q \in loc.call.keys :
            TilePatterns[p[1]][p[2]] = TilePatterns[q[1]][q[2]] => p = q

\* C6: when an attempt has been rejected and generate() starts again, no
\* Grid layer holds an object: whatever was added to the Grid was added by
\* the attempt that is accepted.
C6_RejectedAttemptLeavesNothing ==
    (restarted /\ pc = "start") => glayers = EmptyLayers

\* a rejected attempt has handed over to a new one
C6_Witness ==
    /\ restarted
    /\ pc = "start"
    /\ glayers = EmptyLayers

\* C7: every call of generate() terminates, with a level or with a fatal
\* generation failure: the restarts after rejected attempts are counted and
\* stop at a fixed maximum.
C7_GenerateTerminates == <>(pc \in {"done", "failed"})

\* the phases of generate() that follow a corridor routine's loop
CorridorPhases == {"target", "bends", "minor", "wriggle", "gate"}

\* C8: a generation loop that has counted past its sanity limit ends
\* generate() with a fatal error: generation is never found going on with
\* the counter of a corridor routine beyond SANITY_LIMIT.
C8_SanityLimitIsFatal ==
    pc \in CorridorPhases => loc.call.sanity <= SANITY_LIMIT

\* C31: room carving always terminates: once the loop of line 1198 is
\* entered, generate() leaves it, the number of rooms wanted being reached
\* or a sanity limit on the passes ending generation.
C31_CarvingTerminates == (pc = "rooms") ~> (pc \notin {"rooms", "room"})

\* the rectangle of element e lies inside the grid
Inside(e) ==
    /\ e.pos[1] >= 0 /\ e.pos[2] >= 0 /\ e.size[1] >= 0 /\ e.size[2] >= 0
    /\ e.pos[1] + e.size[1] <= SizeX /\ e.pos[2] + e.size[2] <= SizeY

\* the phases of generate() after the corridors have been committed
Committed ==
    {"rooms", "room", "patterns", "place", "translate", "monsters", "items", "keys",
     "keyloop", "finish", "done"}

\* C32: every map element committed to the scratch grid lies inside the
\* grid, no coordinate and no size negative, no side beyond the grid: the
\* assertion of commit holds and no negative index wraps around.
C32_CommittedInsideGrid ==
    /\ pc \in Committed => \A i \in 1..Len(corridors) : Inside(corridors[i])
    /\ pc \in Committed => \A i \in 1..Len(rooms) : Inside(rooms[i])

RoundOver == ~round.on /\ round.i > 0

\* C34: take_all_turns calls take_turn on the live registered turn-takers in
\* non-decreasing order of initiative, whatever the order of registration.
C34_InitiativeOrder ==
    \A i \in 1..Len(round.called) : \A j \in i..Len(round.called) :
        initiative(round.called[i]) <= initiative(round.called[j])

\* C34 witness: the door was registered after both monsters and a round
\* has called the three, the door first
C34_Witness ==
    /\ RoundOver
    /\ registered = <<"dk", "cam", "dr">>
    /\ round.called = <<"dr", "dk", "cam">>

\* the number of take_turn calls the round has made on o
Calls(o) == Cardinality({i \in 1..Len(round.called) : round.called[i] = o})

\* C35: in a round of take_all_turns every turn-taker alive and registered
\* at its start has take_turn called exactly once, whatever is collected,
\* registered or cleared meanwhile (read for the objects still alive and
\* registered when the round returns).
C35_EachOnce ==
    RoundOver =>
        \A o \in round.start :
            (alive[o] = "live" /\ \E i \in 1..Len(turn_takers) : turn_takers[i] = o)
                => Calls(o) = 1

\* the door's state changes in this step
Changes(t) == door'[t].state # door[t].state

\* the steps of the cycle
DoorCycle == {<<"CLOSED", "OPEN">>, <<"OPEN", "CLOSING">>, <<"CLOSING", "CLOSED">>}

\* C36: under any interleaving of try_movement and take_turn calls a Door
\* changes state only along CLOSED -> OPEN -> CLOSING -> CLOSED.
C36_DoorCycle ==
    [][\A t \in Doors : Changes(t) => <<door[t].state, door'[t].state>> \in DoorCycle]_vars

\* C36 witness: the door has gone round the cycle: a take_turn has just
\* closed it (the flag of the calls that opened it is still set)
C36_Witness ==
    /\ door["dr"].state = "CLOSED" /\ door["dr"].trying
    /\ doorlog["dr"].op = "take_turn"

\* the step is a take_turn call on door t
TurnStep(t) == doorlog'[t] # doorlog[t] /\ doorlog'[t].op = "take_turn"
\* the step is not a try_movement call
NotEntered == ret'.op # "try_movement"
\* the take_turn call of this step is the k-th the history counts
Kth(t, k) == doorlog[t].n + 1 = k

TimerRule ==
    \A t \in Doors :
        TurnStep(t) =>
            /\ door[t].state = "OPEN" => (door'[t].state = "CLOSING" <=> Kth(t, 6))
            /\ door[t].state = "CLOSING" => (door'[t].state = "CLOSED" <=> Kth(t, 4))

TryClosed(t) ==
    /\ door[t].state = "CLOSED"
    /\ doorlog'[t] # doorlog[t] /\ doorlog'[t].op = "try_movement"
\* the step is a take_turn call on door t, found CLOSED with no try_movement
\* since the take_turn before
IdleTurn(t) ==
    /\ door[t].state = "CLOSED" /\ ~doorlog[t].tried
    /\ doorlog'[t].op = "take_turn" /\ last'.op = "take_turn" /\ ret' = NoRet

OpeningRule ==
    \A t \in Doors :
        /\ TryClosed(t) => /\ ret'.val <=> Kth(t, 4)
                           /\ ret'.val <=> door'[t].state = "OPEN"
        /\ IdleTurn(t) => door'[t].count = 0

\* C38: a CLOSED Door opens on exactly the 4th try_movement call since its
\* progress was last reset, the first three returning false and the fourth
\* true; a take_turn with no try_movement since the take_turn before resets
\* the progress to 0.
C38_FourthTryOpens == [][OpeningRule]_vars

\* C38 witness: a try_movement call has just opened the door and returned
\* true
C38_Witness ==
    /\ door["dr"].state = "OPEN" /\ door["dr"].count = 0
    /\ doorlog["dr"].op = "try_movement" /\ doorlog["dr"].n = 0
    /\ ret.op = "try_movement" /\ ret.val = TRUE
    /\ last.op = "try_movement"

\* the monsters of the Tangle's dogpile
Pile(T) == {tangles[T].dogpile[i] : i \in 1..Len(tangles[T].dogpile)}
Active(T) == tangles[T].tangle_counter > 0
InLayer(T) == \E c \in Cells : \E i \in 1..Len(monster_layer[c]) : monster_layer[c][i] = T

\* C39: while a Tangle has tangle_counter > 0, every monster of its dogpile
\* has is_visible false and tangled_with the Tangle, the Tangle is in the
\* Monster layer, and no monster is in the dogpile of two active Tangles.
C39_TangleHoldsItsPile ==
    \A T \in Tangles :
        Active(T) =>
            /\ \A m \in Pile(T) : ~monsters[m].is_visible /\ monsters[m].tangled_with = T
            /\ InLayer(T)
            /\ \A U \in Tangles \ {T} : Active(U) => Pile(T) \cap Pile(U) = {}

\* C39 witness: two Tangles are active at once, one of them holding two
\* monsters
C39_Witness ==
    \E T \in Tangles : \E U \in Tangles \ {T} :
        /\ Active(T) /\ Active(U)
        /\ Cardinality(Pile(T)) = 2 /\ Cardinality(Pile(U)) = 1

\* the step is a take_turn call on the Tangle T
TangleStep(T) == tanglelog'[T].calls = tanglelog[T].calls + 1
\* the Tangle is gone and its monsters are back
Dissolved(T) ==
    /\ \A m \in Pile(T) : monsters'[m].is_visible /\ monsters'[m].tangled_with = NoObj
    /\ \A c \in Cells : \A i \in 1..Len(monster_layer'[c]) : monster_layer'[c][i] # T

DissolveRule ==
    \A T \in Tangles :
        (TangleStep(T) /\ Active(T)) =>
            IF tanglelog[T].calls + 1 = tanglelog[T].n
            THEN Dissolved(T)
            ELSE \A m \in Pile(T) : ~monsters'[m].is_visible

\* C40: with no further monster added, a Tangle whose tangle_counter is
\* n > 0 dissolves at the n-th take_turn call: its monsters are visible and
\* tangled with nothing and the Tangle is out of the Monster layer; before
\* the n-th call no monster of it becomes visible.
C40_DissolvesAtNth == [][DissolveRule]_vars

\* C40 witness: a Tangle of two monsters has been dissolved by its tenth
\* take_turn call
C40_Witness ==
    \E T \in Tangles :
        /\ tanglelog[T].n = 10 /\ tanglelog[T].calls = 10
        /\ ~tangles[T].map /\ tangles[T].tangle_counter = 0
        /\ \A m \in {"d1", "d2"} : monsters[m].is_visible /\ monsters[m].tangled_with = NoObj

====
